---------------------------- MODULE Spec2Model ----------------------------
(***************************************************************************)
(* State-machine model of the BPSR-PSO packet pipeline and of the entity / *)
(* session store behind it:                                                *)
(*   - the frame assembler and message dispatcher of PacketProcessor       *)
(*     (processDataChunk / #parseBuffer / #processSinglePacket and         *)
(*     processPacket),                                                     *)
(*   - the combat-event crediting of #processAoiSyncDelta,                 *)
(*   - the UserDataManager registry (live users, graveyard, enemy cache,   *)
(*     current session) and UserData.                                      *)
(* Bytes are integers 0..255, buffers are sequences of bytes.              *)
(***************************************************************************)
EXTENDS Integers, Sequences, FiniteSets, TLC

VARIABLES
    \* ---- PacketProcessor
    internalBuffer,   \* #internalBuffer
    stream,           \* bytes the capture source has not delivered yet
    fed,              \* bytes delivered so far through processDataChunk
    dispatched,       \* frames handed to #processSinglePacket so far, in order
    zstdAvailable,    \* whether zlib.zstdDecompressSync exists in this runtime
    last,             \* record of the most recent entry-point call
    parsing,          \* #parseBuffer activations on the call stack, between steps
    \* ---- ModuleOptimizer
    optimizer,        \* the optimizeModules call: its arguments, locals and result
    \* ---- UserDataManager / config
    users,            \* this.users            : uid -> UserData
    userGraveyard,    \* this.userGraveyard    : uid -> UserData
    userCache,        \* this.userCache        : uid -> cached identity
    hpCache,          \* this.hpCache          : uid -> hp
    enemyCache,       \* this.enemyCache       : [name, hp, maxHp : uid -> value]
    currentSession,   \* this.currentSession   (NoSession when null)
    persisted,        \* the calls made to Sessions.addSession, in order
    IS_PAUSED,        \* config.IS_PAUSED
    isPaused,         \* the isPaused of createApiRouter
    onlyRecordEliteDummy, \* config.GLOBAL_SETTINGS.onlyRecordEliteDummy
    now,              \* Date.now(), in milliseconds since start-up
    nextId,           \* source of fresh session ids (crypto.randomUUID)
    shutdownHookBound, \* this._shutdownHookBound
    shutdownHandlers, \* listeners registered on each of the four shutdown events
    currentUserUuid,  \* #currentUserUuid of the packet processor (0 when unknown)
    io,               \* the manager's timers, lock, pending file operations and files
    steps,            \* number of delta messages handled so far
    pre,              \* the store as it was before the most recent operation
    lastOp            \* record of the most recent store operation

frameVars == <<internalBuffer, stream, fed, dispatched, zstdAvailable, last, parsing, optimizer>>
storeVars == <<users, userGraveyard, userCache, hpCache, enemyCache,
               currentSession, persisted, IS_PAUSED, isPaused, onlyRecordEliteDummy,
               now, nextId, shutdownHookBound, shutdownHandlers, io, currentUserUuid,
               steps, pre, lastOp>>
vars == <<frameVars, storeVars>>

(***************************************************************************)
(* Generic helpers                                                         *)
(***************************************************************************)
Drop(s, n) == IF n >= Len(s) THEN <<>> ELSE SubSeq(s, n + 1, Len(s))
Take(s, n) == IF n >= Len(s) THEN s ELSE SubSeq(s, 1, n)
IsPrefix(p, s) == Len(p) <= Len(s) /\ SubSeq(s, 1, Len(p)) = p

(***************************************************************************)
(* Protocol constants                                                      *)
(***************************************************************************)
MIN == 6
MAX == 1048576
MessageType_Notify == 2
MessageType_Return == 3
MessageType_FrameDown == 6
NotifyMethod_SyncNearEntities == 6
NotifyMethod_SyncContainerData == 21
NotifyMethod_SyncContainerDirtyData == 22
NotifyMethod_SyncNearDeltaInfo == 45
NotifyMethod_SyncToMeDeltaInfo == 46

(***************************************************************************)
(* Unsigned 32-bit words are pairs <<high half, low half>> of 16-bit       *)
(* halves, so that every value a four-byte read can produce is             *)
(* represented exactly; a 64-bit word is a pair of 32-bit words.           *)
(***************************************************************************)
W(n) == <<n \div 65536, n % 65536>>
WordLt(w, n) == w[1] < W(n)[1] \/ (w[1] = W(n)[1] /\ w[2] < W(n)[2])
WordGt(w, n) == w[1] > W(n)[1] \/ (w[1] = W(n)[1] /\ w[2] > W(n)[2])
\* the number a word stands for, for the words that are valid lengths
WordVal(w) == w[1] * 65536 + w[2]
\* packetSize < MIN || packetSize > MAX
OutOfRange(w) == WordLt(w, MIN) \/ WordGt(w, MAX)

\* 0x0000000063335342n
SERVICE_UUID_NOTIFY == <<<<0, 0>>, <<25395, 21314>>>>
\* the identifier doesStreamHaveIdentifier compares with: 0xfffffffe
STREAM_IDENTIFIER == <<65535, 65534>>

(***************************************************************************)
(* BinaryReader: a bounds-checked sequential reader over a byte buffer     *)
(* with a movable position.  pos is the number of bytes already consumed.  *)
(* The unsuffixed reads are big-endian, readUInt32LE is little-endian.     *)
(***************************************************************************)
remaining(buf, pos) == Len(buf) - pos

UInt32LE(buf, pos) ==
    <<buf[pos + 3] + 256 * buf[pos + 4], buf[pos + 1] + 256 * buf[pos + 2]>>

UInt32BE(buf, pos) ==
    <<256 * buf[pos + 1] + buf[pos + 2], 256 * buf[pos + 3] + buf[pos + 4]>>

UInt16BE(buf, pos) == 256 * buf[pos + 1] + buf[pos + 2]

UInt64BE(buf, pos) == <<UInt32BE(buf, pos), UInt32BE(buf, pos + 4)>>

(***************************************************************************)
(* doesStreamHaveIdentifier(reader), for a reader at position pos: false   *)
(* when fewer than 8 bytes remain or the little-endian word at the         *)
(* position is not 0xfffffffe; the position is restored in every case.     *)
(***************************************************************************)
\* a header check that accepts any four bytes
acceptsAnyHeader(buf, pos) == remaining(buf, pos) >= 4

doesStreamHaveIdentifier(buf, pos) ==
    IF remaining(buf, pos) < 8 THEN FALSE
    ELSE UInt32LE(buf, pos) = STREAM_IDENTIFIER

(***************************************************************************)
(* zlib.zstdDecompressSync, for the frames the model feeds: a single-      *)
(* segment zstd frame holding one raw (stored) last block of n <= 31       *)
(* bytes is  28 B5 2F FD | 20 | n | 1+8n 00 00 | content ; every other     *)
(* input makes the primitive throw.                                        *)
(***************************************************************************)
ZstdHeader(n) == <<40, 181, 47, 253, 32, n, 1 + 8 * n, 0, 0>>

IsZstdFrame(buf) ==
    /\ Len(buf) >= 9
    /\ buf[6] <= 31
    /\ Len(buf) = 9 + buf[6]
    /\ SubSeq(buf, 1, 9) = ZstdHeader(buf[6])

ZstdCompress(content) == ZstdHeader(Len(content)) \o content

(***************************************************************************)
(* #maybeDecompress(buffer, {zstdFlag}): the decompressed payload, or the  *)
(* raw payload when it is empty, when the primitive is unavailable or      *)
(* when the primitive throws.                                              *)
(***************************************************************************)
maybeDecompress(buffer, zstd) ==
    IF Len(buffer) = 0 THEN buffer
    ELSE IF zstd THEN (IF IsZstdFrame(buffer) THEN Drop(buffer, 9) ELSE buffer)
    ELSE buffer

(***************************************************************************)
(* #processNotifyMsg(reader, isZstd), the reader standing at pos in buf.   *)
(* The result tells whether an exception leaves the method and which       *)
(* notification handlers ran.  The three reads are bounds-checked: a       *)
(* frame too short for them throws.  containerThrows is the environment:   *)
(* whether a collaborator called by #processSyncContainerData throws, in   *)
(* which case the handler rethrows.                                        *)
(***************************************************************************)
processNotifyMsg(buf, pos, isZstd, zstd, containerThrows) ==
    IF remaining(buf, pos) < 16 THEN [threw |-> TRUE, events |-> <<>>]
    ELSE
      LET serviceUuid == UInt64BE(buf, pos)
          methodId == UInt32BE(buf, pos + 12)
          raw == Drop(buf, pos + 16)
          payload == IF isZstd THEN maybeDecompress(raw, zstd) ELSE raw
      IN  IF serviceUuid # SERVICE_UUID_NOTIFY THEN [threw |-> FALSE, events |-> <<>>]
          ELSE IF Len(payload) = 0 THEN [threw |-> FALSE, events |-> <<>>]
          ELSE IF methodId = W(NotifyMethod_SyncContainerData)
          THEN [threw |-> containerThrows,
                events |-> <<[method |-> methodId, payload |-> payload]>>]
          ELSE IF methodId \in {W(NotifyMethod_SyncNearEntities),
                                W(NotifyMethod_SyncContainerDirtyData),
                                W(NotifyMethod_SyncToMeDeltaInfo),
                                W(NotifyMethod_SyncNearDeltaInfo)}
          THEN [threw |-> FALSE,
                events |-> <<[method |-> methodId, payload |-> payload]>>]
          ELSE [threw |-> FALSE, events |-> <<>>]

(***************************************************************************)
(* processPacket(packets).  acc accumulates what the call did: the frames  *)
(* handed to the type switch (out), the handlers that ran (events) and     *)
(* the exceptions caught by the try/catch of processPacket (caught).  The  *)
(* try wraps the whole while loop: an exception thrown while handling one  *)
(* frame ends the loop of that call.  A FrameDown frame re-enters          *)
(* processPacket on its nested stream, which has a try/catch of its own.   *)
(***************************************************************************)
RECURSIVE PacketLoop(_, _, _, _, _)
PacketLoop(buf, pos, acc, zstd, containerThrows) ==
    IF remaining(buf, pos) < MIN THEN [acc |-> acc, threw |-> FALSE]
    ELSE
      LET size == UInt32BE(buf, pos) IN
      IF OutOfRange(size) THEN [acc |-> acc, threw |-> FALSE]
      ELSE IF remaining(buf, pos) < WordVal(size) THEN [acc |-> acc, threw |-> FALSE]
      ELSE
        LET packetSize == WordVal(size)
            packet == SubSeq(buf, pos + 1, pos + packetSize)
            packetType == UInt16BE(packet, 4)
            isZstd == packetType >= 32768
            msgTypeId == packetType % 32768
            acc1 == [acc EXCEPT !.out = Append(@, packet)]
            next == pos + packetSize
        IN
        IF msgTypeId = MessageType_Notify THEN
            LET r == processNotifyMsg(packet, 6, isZstd, zstd, containerThrows)
                acc2 == [acc1 EXCEPT !.events = @ \o r.events]
            IN  IF r.threw THEN [acc |-> acc2, threw |-> TRUE]
                ELSE PacketLoop(buf, next, acc2, zstd, containerThrows)
        ELSE IF msgTypeId = MessageType_FrameDown THEN
            IF remaining(packet, 6) < 4 THEN [acc |-> acc1, threw |-> TRUE]
            ELSE IF remaining(packet, 10) = 0
            THEN PacketLoop(buf, next, acc1, zstd, containerThrows)
            ELSE
              LET raw == Drop(packet, 10)
                  nested == IF isZstd THEN maybeDecompress(raw, zstd) ELSE raw
                  inner == PacketLoop(nested, 0, acc1, zstd, containerThrows)
                  acc2 == IF inner.threw
                          THEN [inner.acc EXCEPT !.caught = @ + 1]
                          ELSE inner.acc
              IN  PacketLoop(buf, next, acc2, zstd, containerThrows)
        ELSE PacketLoop(buf, next, acc1, zstd, containerThrows)

processPacket(packets, zstd, containerThrows) ==
    LET r == PacketLoop(packets, 0, [out |-> <<>>, events |-> <<>>, caught |-> 0],
                        zstd, containerThrows)
    IN  IF r.threw THEN [r.acc EXCEPT !.caught = @ + 1] ELSE r.acc

(***************************************************************************)
(* processDataChunk / #parseBuffer / #processSinglePacket.  st is the      *)
(* state of the call: the internal buffer (buf), the frames handed to      *)
(* #processSinglePacket (out), the handlers that ran (events), the         *)
(* exceptions swallowed by #processSinglePacket (caught), the number of    *)
(* #parseBuffer activations on the stack (depth) and its maximum           *)
(* (maxDepth), and the buffers whose header was judged invalid             *)
(* (invalidHeads).                                                         *)
(***************************************************************************)
RECURSIVE parseBuffer(_, _, _)
RECURSIVE processDataChunkIn(_, _, _, _)

processSinglePacket(st, packet, zstd, containerThrows) ==
    LET type == UInt16BE(packet, 4)
        isZstd == type >= 32768
        msgTypeId == type % 32768
        st1 == [st EXCEPT !.out = Append(@, packet)]
    IN
    IF msgTypeId = MessageType_Notify THEN
        LET r == processNotifyMsg(packet, 6, isZstd, zstd, containerThrows)
        IN  [st1 EXCEPT !.events = @ \o r.events,
                        !.caught = IF r.threw THEN @ + 1 ELSE @]
    ELSE IF msgTypeId = MessageType_FrameDown THEN
        IF remaining(packet, 6) < 4 THEN [st1 EXCEPT !.caught = @ + 1]
        ELSE IF remaining(packet, 10) = 0 THEN st1
        ELSE
          LET raw == Drop(packet, 10)
              nested == IF isZstd THEN maybeDecompress(raw, zstd) ELSE raw
          IN  processDataChunkIn(st1, nested, zstd, containerThrows)
    ELSE st1

parseBuffer(st, zstd, containerThrows) ==
    IF Len(st.buf) < 4 THEN st
    ELSE IF ~doesStreamHaveIdentifier(st.buf, 0)
    THEN parseBuffer([st EXCEPT !.buf = Drop(@, 4),
                                !.invalidHeads = Append(@, st.buf)],
                     zstd, containerThrows)
    ELSE
      LET size == UInt32LE(st.buf, 0) IN
      IF OutOfRange(size) THEN [st EXCEPT !.buf = <<>>]
      ELSE IF Len(st.buf) < WordVal(size) THEN st
      ELSE
        LET packetSize == WordVal(size)
            packetData == Take(st.buf, packetSize)
            st1 == [st EXCEPT !.buf = Drop(@, packetSize)]
        IN  parseBuffer(processSinglePacket(st1, packetData, zstd, containerThrows),
                        zstd, containerThrows)

processDataChunkIn(st, chunk, zstd, containerThrows) ==
    IF Len(chunk) = 0 THEN st
    ELSE
      LET d == st.depth + 1
          entered == [st EXCEPT !.buf = @ \o chunk,
                                !.depth = d,
                                !.maxDepth = IF d > @ THEN d ELSE @]
          done == parseBuffer(entered, zstd, containerThrows)
      IN  [done EXCEPT !.depth = @ - 1]

processDataChunk(buf, chunk, zstd, containerThrows) ==
    processDataChunkIn([buf |-> buf, out |-> <<>>, events |-> <<>>, caught |-> 0,
                        depth |-> 0, maxDepth |-> 0, invalidHeads |-> <<>>],
                       chunk, zstd, containerThrows)

(***************************************************************************)
(* The wire format as the dispatcher reads it (processPacket): a frame is  *)
(* a 4-byte big-endian length L in [MIN, MAX] counting itself, a 2-byte    *)
(* type word, and L - 6 bytes of body.                                     *)
(***************************************************************************)
Bytes32BE(n) == <<(n \div 16777216) % 256, (n \div 65536) % 256, (n \div 256) % 256, n % 256>>

HasFrameAtHead(s) ==
    /\ Len(s) >= 4
    /\ ~OutOfRange(UInt32BE(s, 0))
    /\ Len(s) >= WordVal(UInt32BE(s, 0))

\* the declared length of the frame at the head of s
HeadLength(s) == WordVal(UInt32BE(s, 0))

IsValidFrame(f) == HasFrameAtHead(f) /\ Len(f) = HeadLength(f)

\* the nested stream a FrameDown frame carries (empty when it carries none)
NestedStream(f, zstd) ==
    IF UInt16BE(f, 4) % 32768 = MessageType_FrameDown /\ Len(f) > 10
    THEN IF UInt16BE(f, 4) >= 32768 THEN maybeDecompress(Drop(f, 10), zstd)
         ELSE Drop(f, 10)
    ELSE <<>>

\* the frames of a byte stream in arrival order, those nested in a FrameDown
\* frame arriving at the position of that frame
RECURSIVE FramesInOrder(_, _)
FramesInOrder(s, zstd) ==
    IF ~HasFrameAtHead(s) THEN <<>>
    ELSE LET f == Take(s, HeadLength(s))
         IN  <<f>> \o FramesInOrder(NestedStream(f, zstd), zstd)
                   \o FramesInOrder(Drop(s, Len(f)), zstd)

\* a stream that is exactly a sequence of valid frames, nested streams included
RECURSIVE WellFormed(_, _)
WellFormed(s, zstd) ==
    \/ Len(s) = 0
    \/ /\ HasFrameAtHead(s)
       /\ WellFormed(NestedStream(Take(s, HeadLength(s)), zstd), zstd)
       /\ WellFormed(Drop(s, HeadLength(s)), zstd)

\* a non-empty proper prefix of some valid frame
IsProperFramePrefix(b) ==
    /\ Len(b) >= 1
    /\ b[1] = 0
    /\ Len(b) >= 2 => b[2] <= 16
    /\ Len(b) >= 3 => (b[2] < 16 \/ b[3] = 0)
    /\ Len(b) >= 4 => /\ ~OutOfRange(UInt32BE(b, 0))
                      /\ Len(b) < HeadLength(b)

(***************************************************************************)
(* The byte streams the capture source delivers: concatenations of at most *)
(* MaxBlocks of the blocks below.                                          *)
(***************************************************************************)
MaxBlocks == 2
MaxChunk == 8

Frame(type, body) == Bytes32BE(6 + Len(body)) \o type \o body

FrameReturn == Frame(<<0, 3>>, <<>>)
\* a Notify frame too short to hold service id, stub id and method id
FrameNotifyShort == Frame(<<0, 2>>, <<>>)
FrameUnknown == Frame(<<0, 9>>, <<170>>)
FrameNotifyContainer ==
    Frame(<<0, 2>>, <<0, 0, 0, 0, 99, 51, 83, 66>> \o <<0, 0, 0, 0>>
                    \o Bytes32BE(NotifyMethod_SyncContainerData) \o <<1>>)
FrameDownOf(nested) == Frame(<<0, 6>>, <<0, 0, 0, 1>> \o nested)
FrameDownZstdOf(nested) == Frame(<<128, 6>>, <<0, 0, 0, 1>> \o ZstdCompress(nested))
\* eight bytes that start with the identifier 0xfffffffe (little-endian)
IdentifiedHeader == <<254, 255, 255, 255, 0, 0, 0, 0>>
\* a length prefix of 5, below MIN in either byte order, and one more byte
ShortLength == <<0, 0, 0, 5, 0>>
\* a FrameDown frame whose length prefix is little-endian
FrameDownLE == <<11, 0, 0, 0, 0, 6, 0, 0, 0, 1, 170>>

Blocks ==
    { FrameReturn, FrameNotifyShort, FrameUnknown, FrameNotifyContainer,
      FrameDownOf(FrameNotifyShort \o FrameReturn),
      FrameDownZstdOf(FrameUnknown),
      IdentifiedHeader, ShortLength, FrameDownLE }

RECURSIVE StreamsOf(_)
StreamsOf(n) ==
    IF n = 0 THEN {<<>>}
    ELSE LET S == StreamsOf(n - 1) IN S \cup {s \o b : s \in S, b \in Blocks}

\* no optimizeModules call has been made
NoOptimization ==
    [pc |-> "idle", modules |-> <<>>, category |-> "ALL", topN |-> 0, sortMode |-> "ByTotalAttr",
     cfg |-> [priorityAttrs |-> {}, desiredLevels |-> <<>>],
     candidates |-> <<>>, shuffled |-> FALSE, solutions |-> <<>>, seen |-> {},
     attempts |-> 0, result |-> <<>>]

NoCall ==
    [op |-> "none", bufBefore |-> <<>>, input |-> <<>>, out |-> <<>>,
     events |-> <<>>, caught |-> 0, maxDepth |-> 0, invalidHeads |-> <<>>]

FrameInit ==
    /\ internalBuffer = <<>>
    /\ stream \in StreamsOf(MaxBlocks) \ {<<>>}
    /\ fed = <<>>
    /\ dispatched = <<>>
    /\ zstdAvailable \in BOOLEAN
    /\ last = NoCall
    /\ parsing = 0
    /\ optimizer = NoOptimization

(***************************************************************************)
(* The capture source delivers the next k bytes to processDataChunk.       *)
(***************************************************************************)
ProcessDataChunk ==
    \E k \in 0..MaxChunk, containerThrows \in BOOLEAN :
      /\ k <= Len(stream)
      /\ LET chunk == Take(stream, k)
             r == processDataChunk(internalBuffer, chunk, zstdAvailable, containerThrows)
         IN  /\ internalBuffer' = r.buf
             /\ stream' = Drop(stream, k)
             /\ fed' = fed \o chunk
             /\ dispatched' = dispatched \o r.out
             /\ last' = [op |-> "chunk", bufBefore |-> internalBuffer,
                         input |-> chunk, out |-> r.out, events |-> r.events,
                         caught |-> r.caught, maxDepth |-> r.maxDepth,
                         invalidHeads |-> r.invalidHeads]
      /\ UNCHANGED <<zstdAvailable, parsing, optimizer, storeVars>>

(***************************************************************************)
(* The capture source hands the whole captured stream to processPacket.    *)
(***************************************************************************)
ProcessPacket ==
    \E containerThrows \in BOOLEAN :
      /\ LET packets == fed \o stream
             r == processPacket(packets, zstdAvailable, containerThrows)
         IN  last' = [op |-> "packet", bufBefore |-> internalBuffer,
                      input |-> packets, out |-> r.out, events |-> r.events,
                      caught |-> r.caught, maxDepth |-> 0, invalidHeads |-> <<>>]
      /\ UNCHANGED <<internalBuffer, stream, fed, dispatched, zstdAvailable, parsing, optimizer, storeVars>>

(***************************************************************************)
(* The parse loop of #parseBuffer, one iteration at a time.  An iteration  *)
(* yields the buffer it leaves, whether it leaves the loop (the loop test  *)
(* fails or a break is taken) and whether the frame it dispatched re-      *)
(* entered processDataChunk with a non-empty nested stream, which runs a   *)
(* further #parseBuffer on the same buffer before the iteration returns.   *)
(***************************************************************************)
Iteration(buf, leaves, enters) == [buf |-> buf, leaves |-> leaves, enters |-> enters]

\* a variant that retries on an invalid header without advancing
keepsInvalidHeader(buf) == Iteration(buf, FALSE, FALSE)

\* this.#internalBuffer = this.#internalBuffer.subarray(4); continue;
advancesPastHeader(buf) == Iteration(Drop(buf, 4), FALSE, FALSE)

\* the nested stream #processSinglePacket feeds back; a read past the end of
\* the frame throws into its catch and feeds nothing
nestedOfPacket(packet, zstd) ==
    IF UInt16BE(packet, 4) % 32768 # MessageType_FrameDown THEN <<>>
    ELSE IF remaining(packet, 6) < 4 THEN <<>>
    ELSE IF UInt16BE(packet, 4) >= 32768 THEN maybeDecompress(Drop(packet, 10), zstd)
    ELSE Drop(packet, 10)

dispatchesPacket(buf, packetSize, zstd) ==
    Iteration(Drop(buf, packetSize) \o nestedOfPacket(Take(buf, packetSize), zstd),
              FALSE,
              Len(nestedOfPacket(Take(buf, packetSize), zstd)) > 0)

parseIteration(buf, zstd) ==
    IF Len(buf) < 4 THEN Iteration(buf, TRUE, FALSE)
    ELSE IF ~doesStreamHaveIdentifier(buf, 0) THEN advancesPastHeader(buf)
    ELSE IF OutOfRange(UInt32LE(buf, 0)) THEN Iteration(<<>>, TRUE, FALSE)
    ELSE IF Len(buf) < WordVal(UInt32LE(buf, 0)) THEN Iteration(buf, TRUE, FALSE)
    ELSE dispatchesPacket(buf, WordVal(UInt32LE(buf, 0)), zstd)

\* processDataChunk(chunk) up to the call of #parseBuffer
FeedChunk ==
    \E k \in 1..MaxChunk :
      /\ parsing = 0
      /\ k <= Len(stream)
      /\ internalBuffer' = internalBuffer \o Take(stream, k)
      /\ stream' = Drop(stream, k)
      /\ fed' = fed \o Take(stream, k)
      /\ parsing' = 1
      /\ last' = [NoCall EXCEPT !.op = "feed", !.bufBefore = internalBuffer,
                                !.input = Take(stream, k), !.maxDepth = 1]
      /\ UNCHANGED <<dispatched, zstdAvailable, optimizer, storeVars>>

\* one iteration of the innermost running loop
ParseIteration ==
    /\ parsing > 0
    /\ internalBuffer' = parseIteration(internalBuffer, zstdAvailable).buf
    /\ parsing' = IF parseIteration(internalBuffer, zstdAvailable).leaves THEN parsing - 1
                  ELSE IF parseIteration(internalBuffer, zstdAvailable).enters THEN parsing + 1
                  ELSE parsing
    /\ last' = [NoCall EXCEPT !.op = "iteration", !.bufBefore = internalBuffer,
                              !.maxDepth = parsing]
    /\ UNCHANGED <<stream, fed, dispatched, zstdAvailable, optimizer, storeVars>>

(***************************************************************************)
(* Maps (JS Map / plain objects) are functions with a finite domain.       *)
(***************************************************************************)
EmptyMap == [x \in {} |-> 0]
Put(m, k, v) == [x \in (DOMAIN m) \cup {k} |-> IF x = k THEN v ELSE m[x]]
Remove(m, k) == [x \in (DOMAIN m) \ {k} |-> m[x]]
Has(m, k) == k \in DOMAIN m
\* an absent optional number (null / undefined); an absent text is ""
None == -1

(***************************************************************************)
(* StatisticData: hit counts and cumulative values per bucket.  addRecord  *)
(* adds the value to the bucket matching the flags and to the overall      *)
(* total, and counts the hit in the same bucket and in the total.  (The    *)
(* realtime window is not part of the model.)                              *)
(***************************************************************************)
ZeroBuckets == [normal |-> 0, critical |-> 0, lucky |-> 0, crit_lucky |-> 0, total |-> 0]

StatisticData(type) == [type |-> type, stats |-> ZeroBuckets, count |-> ZeroBuckets]

Bucket(isCrit, isLucky) ==
    IF isCrit /\ isLucky THEN "crit_lucky"
    ELSE IF isCrit THEN "critical"
    ELSE IF isLucky THEN "lucky"
    ELSE "normal"

addRecord(stat, value, isCrit, isLucky) ==
    LET b == Bucket(isCrit, isLucky)
    IN  [stat EXCEPT !.stats = [@ EXCEPT ![b] = @ + value, !.total = @ + value],
                     !.count = [@ EXCEPT ![b] = @ + 1, !.total = @ + 1]]

(***************************************************************************)
(* UserData (src/models/UserData.js)                                       *)
(***************************************************************************)
HEAL_OFFSET == 1000000000

getSubProfessionBySkillId(skillId) ==
    CASE skillId = 1241 -> "frostbeam"
      [] skillId \in {120901, 120902} -> "icicle"
      [] skillId \in {1714, 1734} -> "iaido"
      [] skillId \in {2307, 2361, 55302} -> "concerto"
      [] skillId = 20301 -> "lifebind"
      [] OTHER -> ""

UserData(uid, t) ==
    [uid |-> uid, name |-> "",
     damageStats |-> StatisticData("damage"),
     healingStats |-> StatisticData("healing"),
     takenDamage |-> 0, deadCount |-> 0,
     profession |-> "...",
     skillUsage |-> EmptyMap,
     fightPoint |-> 0,
     subProfession |-> "",
     subProfessionUsage |-> EmptyMap,
     attr |-> EmptyMap,
     lastUpdateTime |-> t]

UsageOf(u, sub) == IF Has(u.subProfessionUsage, sub) THEN u.subProfessionUsage[sub] ELSE 0

User_setSubProfession(u, subProfession, t) ==
    [u EXCEPT !.subProfession = subProfession, !.lastUpdateTime = t]

\* a variant that counts a cast before the profession is known
User_updatesBeforeProfession(u, skillId, t) ==
    LET subProfession == getSubProfessionBySkillId(skillId) IN
    IF subProfession = "" THEN u
    ELSE
      LET newSubCount == UsageOf(u, subProfession) + 1
          u1 == [u EXCEPT !.subProfessionUsage = Put(@, subProfession, newSubCount)]
      IN  IF u1.subProfession = "" THEN User_setSubProfession(u1, subProfession, t)
          ELSE IF u1.subProfession = subProfession THEN u1
          ELSE IF newSubCount >= UsageOf(u1, u1.subProfession) * 2
               THEN User_setSubProfession(u1, subProfession, t)
               ELSE u1

\* a variant that switches only above twice the current count
User_switchesAboveTwice(u, skillId, t) ==
    LET subProfession == getSubProfessionBySkillId(skillId) IN
    IF subProfession = "" THEN u
    ELSE IF u.profession = "..." \/ u.profession = "" THEN u
    ELSE
      LET newSubCount == UsageOf(u, subProfession) + 1
          u1 == [u EXCEPT !.subProfessionUsage = Put(@, subProfession, newSubCount)]
      IN  IF u1.subProfession = "" THEN User_setSubProfession(u1, subProfession, t)
          ELSE IF u1.subProfession = subProfession THEN u1
          ELSE IF newSubCount > UsageOf(u1, u1.subProfession) * 2
               THEN User_setSubProfession(u1, subProfession, t)
               ELSE u1

User_updateSubProfession(u, skillId, t) ==
    LET subProfession == getSubProfessionBySkillId(skillId) IN
    IF subProfession = "" THEN u
    ELSE IF u.profession = "..." \/ u.profession = "" THEN u
    ELSE
      LET newSubCount == UsageOf(u, subProfession) + 1
          u1 == [u EXCEPT !.subProfessionUsage = Put(@, subProfession, newSubCount)]
      IN  IF u1.subProfession = "" THEN User_setSubProfession(u1, subProfession, t)
          ELSE IF u1.subProfession = subProfession THEN u1
          ELSE IF newSubCount >= UsageOf(u1, u1.subProfession) * 2
               THEN User_setSubProfession(u1, subProfession, t)
               ELSE u1

SkillStat(u, key, type) ==
    IF Has(u.skillUsage, key) THEN u.skillUsage[key] ELSE StatisticData(type)

User_addDamage(u, skillId, damage, isCrit, isLucky, isCauseLucky, t) ==
    LET u1 == [u EXCEPT !.lastUpdateTime = t,
                        !.damageStats = addRecord(@, damage, isCrit, isLucky)]
        u2 == [u1 EXCEPT !.skillUsage =
                 Put(@, skillId,
                     addRecord(SkillStat(u1, skillId, "damage"), damage, isCrit, isCauseLucky))]
    IN  User_updateSubProfession(u2, skillId, t)

\* a variant that files the heal under the raw skill id
User_healUnderRawId(u, skillId, healing, isCrit, isLucky, isCauseLucky, t) ==
    LET u1 == [u EXCEPT !.lastUpdateTime = t,
                        !.healingStats = addRecord(@, healing, isCrit, isLucky)]
        u2 == [u1 EXCEPT !.skillUsage =
                 Put(@, skillId,
                     addRecord(SkillStat(u1, skillId, "healing"), healing, isCrit, isCauseLucky))]
    IN  User_updateSubProfession(u2, skillId, t)

User_addHealing(u, skillId, healing, isCrit, isLucky, isCauseLucky, t) ==
    LET healSkillId == skillId + HEAL_OFFSET
        u1 == [u EXCEPT !.lastUpdateTime = t,
                        !.healingStats = addRecord(@, healing, isCrit, isLucky)]
        u2 == [u1 EXCEPT !.skillUsage =
                 Put(@, healSkillId,
                     addRecord(SkillStat(u1, healSkillId, "healing"), healing, isCrit, isCauseLucky))]
    IN  User_updateSubProfession(u2, skillId, t)

\* getSkillSummary(): per key of skillUsage, the raw skill id that names the
\* entry (displayName is skillConfig[baseSkillId] ?? baseSkillId) and its totals
getSkillSummary(u) ==
    [skillId \in DOMAIN u.skillUsage |->
       [baseSkillId |-> skillId % HEAL_OFFSET,
        type |-> u.skillUsage[skillId].type,
        totalDamage |-> IF u.skillUsage[skillId].type = "healing" THEN 0
                        ELSE u.skillUsage[skillId].stats.total,
        totalHealing |-> IF u.skillUsage[skillId].type = "healing"
                         THEN u.skillUsage[skillId].stats.total ELSE 0,
        totalCount |-> u.skillUsage[skillId].count.total]]

\* a variant that books the hit as damage dealt by the user
User_creditAsDealt(u, damage, isDead, t) ==
    User_addDamage(u, 0, damage, FALSE, FALSE, FALSE, t)

User_addTakenDamage(u, damage, isDead, t) ==
    [u EXCEPT !.lastUpdateTime = t,
              !.takenDamage = @ + damage,
              !.deadCount = IF isDead THEN @ + 1 ELSE @]

\* a variant that clears the sub-profession and keeps its usage counters
User_setProfessionKeepsUsage(u, profession, t) ==
    LET u1 == IF profession # u.profession THEN User_setSubProfession(u, "", t) ELSE u
    IN  [u1 EXCEPT !.profession = profession, !.lastUpdateTime = t]

User_setProfession(u, profession, t) ==
    LET u1 == IF profession # u.profession
              THEN [User_setSubProfession(u, "", t) EXCEPT !.subProfessionUsage = EmptyMap]
              ELSE u
    IN  [u1 EXCEPT !.profession = profession, !.lastUpdateTime = t]

User_setName(u, name, t) == [u EXCEPT !.name = name, !.lastUpdateTime = t]

User_setFightPoint(u, fightPoint, t) == [u EXCEPT !.fightPoint = fightPoint, !.lastUpdateTime = t]

User_setAttrKV(u, key, value, t) == [u EXCEPT !.attr = Put(@, key, value), !.lastUpdateTime = t]

(***************************************************************************)
(* UserDataManager.  S is the part of the manager the combat path reads    *)
(* and writes: [users, userGraveyard, userCache, hpCache, enemyCache];     *)
(* every method returns the store after the call.  cfg is the runtime      *)
(* config [paused, elite]; t is Date.now().                                *)
(***************************************************************************)
NoCacheEntry ==
    [name |-> "", profession |-> "", subProfession |-> "",
     fightPoint |-> None, maxHp |-> None]

CacheEntryOf(S, uid) == IF Has(S.userCache, uid) THEN S.userCache[uid] ELSE NoCacheEntry

\* new UserData(uid) hydrated from the persisted cache and the hp cache,
\* one step per cached field
HydrateName(u, c, t) == IF c.name # "" THEN User_setName(u, c.name, t) ELSE u
HydrateProfession(u, c, t) ==
    IF c.profession # "" THEN User_setProfession(u, c.profession, t) ELSE u
HydrateSubProfession(u, c, t) ==
    IF c.subProfession # "" THEN User_setSubProfession(u, c.subProfession, t) ELSE u
HydrateFightPoint(u, c, t) ==
    IF c.fightPoint # None THEN User_setFightPoint(u, c.fightPoint, t) ELSE u
HydrateMaxHp(u, c, t) == IF c.maxHp # None THEN User_setAttrKV(u, "max_hp", c.maxHp, t) ELSE u
HydrateHp(u, S, uid, t) ==
    IF Has(S.hpCache, uid) THEN User_setAttrKV(u, "hp", S.hpCache[uid], t) ELSE u

HydratedFromCache(u, c, t) ==
    HydrateMaxHp(HydrateFightPoint(HydrateSubProfession(
        HydrateProfession(HydrateName(u, c, t), c, t), c, t), c, t), c, t)

HydratedUser(S, uid, t) ==
    HydrateHp(HydratedFromCache(UserData(uid, t), CacheEntryOf(S, uid), t), S, uid, t)

\* a variant that creates a record for every uid that is not live
getUserForgetsGraveyard(S, uid, t) ==
    IF Has(S.users, uid) THEN S
    ELSE [S EXCEPT !.users = Put(@, uid, HydratedUser(S, uid, t))]

\* getUser(uid): the store in which uid is a live user
getUser(S, uid, t) ==
    IF Has(S.users, uid) THEN S
    ELSE IF Has(S.userGraveyard, uid)
    THEN [S EXCEPT !.users = Put(@, uid, S.userGraveyard[uid]),
                   !.userGraveyard = Remove(@, uid)]
    ELSE [S EXCEPT !.users = Put(@, uid, HydratedUser(S, uid, t))]

addDamage(S, cfg, uid, skillId, damage, isCrit, isLucky, isCauseLucky, targetUid, t) ==
    IF cfg.paused THEN S
    ELSE IF cfg.elite /\ targetUid # 75 THEN S
    ELSE LET S1 == getUser(S, uid, t)
         IN  [S1 EXCEPT !.users[uid] =
                User_addDamage(@, skillId, damage, isCrit, isLucky, isCauseLucky, t)]

\* a variant that credits uid 0 like any other uid
addHealingToAnyUid(S, cfg, uid, skillId, healing, isCrit, isLucky, isCauseLucky, t) ==
    IF cfg.paused THEN S
    ELSE [getUser(S, uid, t) EXCEPT !.users[uid] =
            User_addHealing(@, skillId, healing, isCrit, isLucky, isCauseLucky, t)]

addHealing(S, cfg, uid, skillId, healing, isCrit, isLucky, isCauseLucky, t) ==
    IF cfg.paused THEN S
    ELSE IF uid # 0
    THEN LET S1 == getUser(S, uid, t)
         IN  [S1 EXCEPT !.users[uid] =
                User_addHealing(@, skillId, healing, isCrit, isLucky, isCauseLucky, t)]
    ELSE S

\* a variant that records taken damage whatever the pause flag says
addTakenDamageWhilePaused(S, cfg, uid, damage, isDead, t) ==
    [getUser(S, uid, t) EXCEPT !.users[uid] = User_addTakenDamage(@, damage, isDead, t)]

addTakenDamage(S, cfg, uid, damage, isDead, t) ==
    IF cfg.paused THEN S
    ELSE LET S1 == getUser(S, uid, t)
         IN  [S1 EXCEPT !.users[uid] = User_addTakenDamage(@, damage, isDead, t)]

(***************************************************************************)
(* Timers, lock and pending file operations of UserDataManager             *)
(***************************************************************************)
NoFile == [exists |-> FALSE, data |-> EmptyMap]

\* after the constructor: nothing pending, no timer, the lock free
IoInit ==
    [pendingSave |-> FALSE,
     saveThrottleTimer |-> "null",  \* "null", "armed" (timeout not yet fired), "fired"
     orphanTimers |-> 0,            \* armed timeouts whose handle the manager dropped
     cacheWrites |-> <<>>,          \* saveUserCache calls awaiting their writeFile
     usersJson |-> NoFile,          \* the cache file on disk
     lastLogTime |-> 0,
     lastAutoSaveTime |-> 0,
     nextAutoSave |-> 10 * 1000,    \* when the auto-save interval fires next
     logLock |-> FALSE,             \* whether this.logLock is held
     logCalls |-> [acquire |-> 0, dir |-> 0, append |-> 0],
                                    \* addLog calls awaiting the lock, the directory
                                    \* check, the append
     loggedSinceTick |-> FALSE,     \* a log line was recorded since the last tick
     unhandled |-> {},              \* callers whose promise rejected with no handler
     clearAwaits |-> 0]             \* GET /clear handlers awaiting Sessions.addSession

\* saveUserCacheThrottled(): mark the cache dirty and restart the debounce
\* timer; clearTimeout cancels the timeout still held
saveUserCacheThrottled(S) ==
    [S EXCEPT !.io.pendingSave = TRUE, !.io.saveThrottleTimer = "armed"]

\* addLog(log) up to its first await: the call is dropped while paused,
\* otherwise it stamps lastLogTime and waits for the log lock
addLog(S, cfg, t) ==
    IF cfg.paused THEN S
    ELSE [S EXCEPT !.io.lastLogTime = t,
                   !.io.logCalls.acquire = @ + 1,
                   !.io.loggedSinceTick = TRUE]

\* a cache entry is written and saveUserCacheThrottled() follows
CachePut(S, uid, field, value) ==
    saveUserCacheThrottled(
        [S EXCEPT !.userCache = Put(@, uid, [CacheEntryOf(S, uid) EXCEPT ![field] = value])])

\* the setters below act on a store in which uid is already live
ApplyProfession(S, uid, profession, t) ==
    IF S.users[uid].profession # profession
    THEN CachePut([S EXCEPT !.users[uid] = User_setProfession(@, profession, t)],
                  uid, "profession", profession)
    ELSE S

setProfession(S, uid, profession, t) ==
    IF profession = "" THEN S
    ELSE ApplyProfession(getUser(S, uid, t), uid, profession, t)

\* a variant that writes the cache entry whether or not the name differs
ApplyNameAlways(S, uid, name, t) ==
    CachePut([S EXCEPT !.users[uid] = User_setName(@, name, t)], uid, "name", name)

ApplyName(S, uid, name, t) ==
    IF S.users[uid].name # name
    THEN CachePut([S EXCEPT !.users[uid] = User_setName(@, name, t)], uid, "name", name)
    ELSE S

setName(S, uid, name, t) == ApplyName(getUser(S, uid, t), uid, name, t)

ApplyFightPoint(S, uid, fightPoint, t) ==
    IF S.users[uid].fightPoint # fightPoint
    THEN CachePut([S EXCEPT !.users[uid] = User_setFightPoint(@, fightPoint, t)],
                  uid, "fightPoint", fightPoint)
    ELSE S

setFightPoint(S, uid, fightPoint, t) == ApplyFightPoint(getUser(S, uid, t), uid, fightPoint, t)

\* the caches setAttrKV keeps beside the attribute
CacheAttr(S, uid, key, value) ==
    IF key = "max_hp" THEN CachePut(S, uid, "maxHp", value)
    ELSE IF key = "hp" THEN [S EXCEPT !.hpCache = Put(@, uid, value)]
    ELSE S

ApplyAttrKV(S, uid, key, value) ==
    CacheAttr([S EXCEPT !.users[uid].attr = Put(@, key, value)], uid, key, value)

\* setAttrKV writes user.attr[key] directly (no touch of lastUpdateTime)
setAttrKV(S, uid, key, value, t) == ApplyAttrKV(getUser(S, uid, t), uid, key, value)

\* a variant that forgets only the hp of the enemy
deleteEnemyHp(S, id) == [S EXCEPT !.enemyCache.hp = Remove(@, id)]

deleteEnemyData(S, id) ==
    [S EXCEPT !.enemyCache = [name |-> Remove(@.name, id),
                              hp |-> Remove(@.hp, id),
                              maxHp |-> Remove(@.maxHp, id)]]

(***************************************************************************)
(* Entity identity and attribute processing (PacketProcessor)              *)
(***************************************************************************)
UuidTag(uuid) == uuid % 65536
UuidToUid(uuid) == uuid \div 65536
isUuidPlayer(uuid) == UuidTag(uuid) = 640
isUuidMonster(uuid) == UuidTag(uuid) = 64
MakeUuid(uid, tag) == uid * 65536 + tag

AttrType_AttrName == 1
AttrType_AttrId == 10
AttrType_AttrProfessionId == 220
AttrType_AttrFightPoint == 10030
AttrType_AttrLevel == 10000
AttrType_AttrHp == 11310
AttrType_AttrMaxHp == 11320

getProfessionNameFromId(id) ==
    CASE id = 1 -> "Stormblade"
      [] id = 2 -> "Frost Mage"
      [] id = 13 -> "Soul Musician"
      [] OTHER -> ""

\* tables/monster_names.json, for the ids the model uses
monsterNames(attrId) == IF attrId = 10 THEN "Boar" ELSE ""

\* attrs is a sequence of [Id, value], value being the decoded RawData
RECURSIVE processPlayerAttrs(_, _, _, _)
processPlayerAttrs(S, playerUid, attrs, t) ==
    IF attrs = <<>> THEN S
    ELSE
      LET a == Head(attrs)
          S1 == CASE a.Id = AttrType_AttrName -> setName(S, playerUid, a.value, t)
                  [] a.Id = AttrType_AttrProfessionId ->
                        setProfession(S, playerUid, getProfessionNameFromId(a.value), t)
                  [] a.Id = AttrType_AttrFightPoint -> setFightPoint(S, playerUid, a.value, t)
                  [] a.Id = AttrType_AttrLevel -> setAttrKV(S, playerUid, "level", a.value, t)
                  [] a.Id = AttrType_AttrHp -> setAttrKV(S, playerUid, "hp", a.value, t)
                  [] a.Id = AttrType_AttrMaxHp -> setAttrKV(S, playerUid, "max_hp", a.value, t)
                  [] OTHER -> S
      IN  processPlayerAttrs(S1, playerUid, Tail(attrs), t)

RECURSIVE processEnemyAttrs(_, _, _)
processEnemyAttrs(S, enemyUid, attrs) ==
    IF attrs = <<>> THEN S
    ELSE
      LET a == Head(attrs)
          S1 == CASE a.Id = AttrType_AttrName ->
                        [S EXCEPT !.enemyCache.name = Put(@, enemyUid, a.value)]
                  [] a.Id = AttrType_AttrId ->
                        IF monsterNames(a.value) # ""
                        THEN [S EXCEPT !.enemyCache.name = Put(@, enemyUid, monsterNames(a.value))]
                        ELSE S
                  [] a.Id = AttrType_AttrHp ->
                        [S EXCEPT !.enemyCache.hp = Put(@, enemyUid, a.value)]
                  [] a.Id = AttrType_AttrMaxHp ->
                        [S EXCEPT !.enemyCache.maxHp = Put(@, enemyUid, a.value)]
                  [] OTHER -> S
      IN  processEnemyAttrs(S1, enemyUid, Tail(attrs))

(***************************************************************************)
(* #processAoiSyncDelta.  A delta is [Uuid, Attrs, Damages]; a damage      *)
(* record is [OwnerId, TopSummonerId, AttackerUuid, Value, LuckyValue,     *)
(* TypeFlag, Type, IsDead], absent fields being None.                      *)
(***************************************************************************)
AttackerOf(d) == IF d.TopSummonerId # None THEN d.TopSummonerId ELSE d.AttackerUuid

DamageOf(d) ==
    IF d.Value # None THEN d.Value
    ELSE IF d.LuckyValue # None THEN d.LuckyValue
    ELSE 0

\* a record the loop skips: no skill id, no attacker or a zero magnitude
IsSkipped(d) == d.OwnerId = 0 \/ AttackerOf(d) = None \/ DamageOf(d) = 0

\* the crediting of one damage record whose target is a player
creditPlayerTarget(S, cfg, targetUid, attackerIsPlayer, attackerUid, d, t) ==
    IF d.Type = "Heal"
    THEN addHealing(S, cfg, IF attackerIsPlayer THEN attackerUid ELSE 0,
                    d.OwnerId, DamageOf(d), d.TypeFlag % 2 = 1, d.LuckyValue # None,
                    (d.TypeFlag \div 4) % 2 = 1, t)
    ELSE addTakenDamage(S, cfg, targetUid, DamageOf(d), d.IsDead, t)

playerDeath(S, targetUid, d, t) ==
    IF d.IsDead THEN setAttrKV(S, targetUid, "hp", 0, t) ELSE S

\* the crediting of one damage record whose target is not a player
creditOtherTarget(S, cfg, targetUid, attackerIsPlayer, attackerUid, d, t) ==
    IF d.Type # "Heal" /\ attackerIsPlayer
    THEN addDamage(S, cfg, attackerUid, d.OwnerId, DamageOf(d), d.TypeFlag % 2 = 1,
                   d.LuckyValue # None, (d.TypeFlag \div 4) % 2 = 1, targetUid, t)
    ELSE S

enemyDeath(S, targetUid, d) == IF d.IsDead THEN deleteEnemyData(S, targetUid) ELSE S

\* building the combat-log line looks a player up with getUser
lookUp(S, isPlayer, uid, t) == IF isPlayer THEN getUser(S, uid, t) ELSE S

credit(S, cfg, targetIsPlayer, targetUid, attackerIsPlayer, attackerUid, d, t) ==
    IF targetIsPlayer
    THEN playerDeath(creditPlayerTarget(S, cfg, targetUid, attackerIsPlayer, attackerUid, d, t),
                     targetUid, d, t)
    ELSE enemyDeath(creditOtherTarget(S, cfg, targetUid, attackerIsPlayer, attackerUid, d, t),
                    targetUid, d)

processDamage(S, cfg, targetUuid, d, t) ==
    IF IsSkipped(d) THEN S
    ELSE addLog(lookUp(lookUp(credit(S, cfg, isUuidPlayer(targetUuid), UuidToUid(targetUuid),
                                     isUuidPlayer(AttackerOf(d)), UuidToUid(AttackerOf(d)),
                                     d, t),
                              isUuidPlayer(AttackerOf(d)), UuidToUid(AttackerOf(d)), t),
                       isUuidPlayer(targetUuid), UuidToUid(targetUuid), t),
                cfg, t)

RECURSIVE processDamages(_, _, _, _, _)
processDamages(S, cfg, targetUuid, damages, t) ==
    IF damages = <<>> THEN S
    ELSE processDamages(processDamage(S, cfg, targetUuid, Head(damages), t),
                        cfg, targetUuid, Tail(damages), t)

processAoiSyncDelta(S, cfg, delta, t) ==
    IF delta.Uuid = None THEN S
    ELSE
      LET targetUid == UuidToUid(delta.Uuid)
          S1 == IF delta.Attrs = <<>> THEN S
                ELSE IF isUuidPlayer(delta.Uuid)
                THEN processPlayerAttrs(S, targetUid, delta.Attrs, t)
                ELSE IF isUuidMonster(delta.Uuid)
                THEN processEnemyAttrs(S, targetUid, delta.Attrs)
                ELSE S
      IN  processDamages(S1, cfg, delta.Uuid, delta.Damages, t)

(***************************************************************************)
(* Sessions glue of UserDataManager                                        *)
(***************************************************************************)
NoSession ==
    [id |-> 0, startedAt |-> 0, reasonStart |-> "", seq |-> None,
     instanceId |-> None, fromInstance |-> None]

\* the entries of _getAllUserEntries(): live users first, then the
\* graveyarded ones whose uid is not live
AllUserIds(us, gy) == (DOMAIN us) \cup (DOMAIN gy)
AnyUser(us, gy, uid) == IF Has(us, uid) THEN us[uid] ELSE gy[uid]

\* getAllUsersData(): the getSummary() of every entry of _getAllUserEntries()
getAllUsersData(us, gy) ==
    [uid \in AllUserIds(us, gy) |->
       [total_damage |-> AnyUser(us, gy, uid).damageStats.stats,
        total_count |-> AnyUser(us, gy, uid).damageStats.count,
        total_healing |-> AnyUser(us, gy, uid).healingStats.stats,
        taken_damage |-> AnyUser(us, gy, uid).takenDamage,
        dead_count |-> AnyUser(us, gy, uid).deadCount,
        profession |-> AnyUser(us, gy, uid).profession,
        subProfession |-> AnyUser(us, gy, uid).subProfession,
        name |-> AnyUser(us, gy, uid).name,
        fightPoint |-> AnyUser(us, gy, uid).fightPoint]]

\* a variant whose threshold admits a total of exactly 5000
buildsSnapshotFrom5000(u) ==
    ~(u.damageStats.stats.total < 5000 /\ u.healingStats.stats.total < 5000)

\* _buildPlayerSnapshot(uid) is not null
buildsPlayerSnapshot(u) ==
    ~(u.damageStats.stats.total <= 5000 /\ u.healingStats.stats.total <= 5000)

PlayersOf(us, gy) ==
    {uid \in AllUserIds(us, gy) : buildsPlayerSnapshot(AnyUser(us, gy, uid))}

SessionToSave(session, players, reasonEnd, endedAt) ==
    [id |-> session.id, startedAt |-> session.startedAt, endedAt |-> endedAt,
     reasonEnd |-> reasonEnd, instanceId |-> session.instanceId,
     partySize |-> Cardinality(players), players |-> players]

\* a variant that leaves the session current after handing it over
finalizeKeepsSession(session, log, us, gy, reasonEnd, t) ==
    IF session = NoSession THEN [currentSession |-> session, persisted |-> log]
    ELSE LET players == PlayersOf(us, gy) IN
         IF players = {} THEN [currentSession |-> NoSession, persisted |-> log]
         ELSE [currentSession |-> session,
               persisted |-> Append(log, SessionToSave(session, players, reasonEnd, t))]

\* _finalizeAndPersistSession(reasonEnd): the new [currentSession, persisted]
finalizeAndPersistSession(session, log, us, gy, reasonEnd, t) ==
    IF session = NoSession THEN [currentSession |-> session, persisted |-> log]
    ELSE LET players == PlayersOf(us, gy) IN
         IF players = {} THEN [currentSession |-> NoSession, persisted |-> log]
         ELSE [currentSession |-> NoSession,
               persisted |-> Append(log, SessionToSave(session, players, reasonEnd, t))]

(***************************************************************************)
(* The store as a state machine                                            *)
(***************************************************************************)
Store == [users |-> users, userGraveyard |-> userGraveyard, userCache |-> userCache,
          hpCache |-> hpCache, enemyCache |-> enemyCache, io |-> io]
Config == [paused |-> IS_PAUSED, elite |-> onlyRecordEliteDummy]
Snapshot == [users |-> users, userGraveyard |-> userGraveyard, userCache |-> userCache,
             hpCache |-> hpCache, enemyCache |-> enemyCache,
             currentSession |-> currentSession, persisted |-> persisted]
NoDelta == <<>>
Op(name, delta, arg) == [op |-> name, delta |-> delta, arg |-> arg]

SetStore(S) ==
    /\ users' = S.users
    /\ userGraveyard' = S.userGraveyard
    /\ userCache' = S.userCache
    /\ hpCache' = S.hpCache
    /\ enemyCache' = S.enemyCache
    /\ io' = S.io

EmptyEnemyCache == [name |-> EmptyMap, hp |-> EmptyMap, maxHp |-> EmptyMap]

StoreInit(pausedSet, eliteSet, startedSet) ==
    /\ users = EmptyMap
    /\ userGraveyard = EmptyMap
    /\ userCache = EmptyMap
    /\ hpCache = EmptyMap
    /\ enemyCache = EmptyEnemyCache
    /\ currentSession = NoSession
    /\ persisted = <<>>
    /\ IS_PAUSED \in pausedSet
    /\ isPaused = IS_PAUSED
    /\ onlyRecordEliteDummy \in eliteSet
    /\ now = 0
    /\ nextId = 1
    /\ shutdownHookBound \in startedSet
    /\ shutdownHandlers = (IF shutdownHookBound THEN 1 ELSE 0)
    /\ io = IoInit
    /\ currentUserUuid = 0
    /\ steps = 0
    /\ pre = [users |-> EmptyMap, userGraveyard |-> EmptyMap, userCache |-> EmptyMap,
              hpCache |-> EmptyMap, enemyCache |-> EmptyEnemyCache,
              currentSession |-> NoSession, persisted |-> <<>>]
    /\ lastOp = Op("none", NoDelta, None)

\* the frame assembler with nothing to deliver
FrameIdle ==
    /\ internalBuffer = <<>>
    /\ stream = <<>>
    /\ fed = <<>>
    /\ dispatched = <<>>
    /\ zstdAvailable = TRUE
    /\ last = NoCall
    /\ parsing = 0
    /\ optimizer = NoOptimization

MaxSteps == 2
MaxSessions == 2
MaxNow == 60001

(***************************************************************************)
(* #processSyncNearDeltaInfo: a decoded SyncNearDeltaInfo message reaches  *)
(* the handler, which runs #processAoiSyncDelta on each of its DeltaInfos. *)
(***************************************************************************)
RECURSIVE processDeltaInfos(_, _, _, _)
processDeltaInfos(S, cfg, infos, t) ==
    IF infos = <<>> THEN S
    ELSE processDeltaInfos(processAoiSyncDelta(S, cfg, Head(infos), t), cfg, Tail(infos), t)

SyncNearDeltaInfo(Messages, cap) ==
    \E infos \in Messages :
      /\ steps < cap
      /\ SetStore(processDeltaInfos(Store, Config, infos, now))
      /\ steps' = steps + 1
      /\ pre' = Snapshot
      /\ lastOp' = Op("delta", infos, None)
      /\ UNCHANGED <<currentUserUuid, currentSession, persisted, IS_PAUSED, onlyRecordEliteDummy,
                     now, nextId, frameVars, shutdownHookBound, shutdownHandlers, isPaused>>

\* time passes
Tick(Dts) ==
    \E dt \in Dts :
      /\ now + dt <= MaxNow
      /\ now' = now + dt
      /\ pre' = Snapshot
      /\ lastOp' = Op("tick", NoDelta, dt)
      /\ UNCHANGED <<currentUserUuid, io, users, userGraveyard, userCache, hpCache, enemyCache,
                     currentSession, persisted, IS_PAUSED, onlyRecordEliteDummy,
                     nextId, steps, frameVars, shutdownHookBound, shutdownHandlers, isPaused>>

\* a variant that drops the inactive users instead of keeping them
cleanUpDropsInactive(S, t) ==
    [S EXCEPT !.users = [uid \in {u \in DOMAIN S.users :
                                   ~(t - S.users[u].lastUpdateTime > 60 * 1000)} |->
                           S.users[uid]]]

\* cleanUpInactiveUsers(): users untouched for more than 60 s go to the graveyard
Inactive(us, t) == {uid \in DOMAIN us : t - us[uid].lastUpdateTime > 60 * 1000}

cleanUpInactiveUsers(S, t) ==
    LET gone == Inactive(S.users, t)
    IN  [S EXCEPT !.users = [uid \in (DOMAIN S.users) \ gone |-> S.users[uid]],
                  !.userGraveyard = [uid \in (DOMAIN S.userGraveyard) \cup gone |->
                                       IF uid \in gone THEN S.users[uid]
                                       ELSE S.userGraveyard[uid]]]

CleanUpInactiveUsers ==
    /\ SetStore(cleanUpInactiveUsers(Store, now))
    /\ pre' = Snapshot
    /\ lastOp' = Op("cleanUp", NoDelta, None)
    /\ UNCHANGED <<currentUserUuid, currentSession, persisted, IS_PAUSED, onlyRecordEliteDummy,
                   now, nextId, steps, frameVars, shutdownHookBound, shutdownHandlers, isPaused>>

\* getUser(uid) called from outside the combat path
GetUser ==
    \E uid \in {1} :
      /\ SetStore(getUser(Store, uid, now))
      /\ pre' = Snapshot
      /\ lastOp' = Op("getUser", NoDelta, uid)
      /\ UNCHANGED <<currentUserUuid, currentSession, persisted, IS_PAUSED, onlyRecordEliteDummy,
                     now, nextId, steps, frameVars, shutdownHookBound, shutdownHandlers, isPaused>>

\* clearAll({persistSession, reasonEnd}): the new registry, session and log
clearAll(session, log, us, gy, persistSession, reasonEnd, t) ==
    LET f == IF persistSession
             THEN finalizeAndPersistSession(session, log, us, gy, reasonEnd, t)
             ELSE [currentSession |-> session, persisted |-> log]
    IN  [users |-> EmptyMap, userGraveyard |-> EmptyMap,
         currentSession |-> f.currentSession, persisted |-> f.persisted]

\* saveAllUserData(users, startTime) called without await or catch: its
\* catch block logs and rethrows, so a failed write rejects a promise that
\* the caller never handles
saveAllUserData(I, caller, ok) ==
    [I EXCEPT !.unhandled = IF ok THEN @ ELSE @ \cup {caller}]

\* the clocks clearAll resets and the save it starts
clearAllFiles(I, ok) ==
    saveAllUserData([I EXCEPT !.lastAutoSaveTime = 0, !.lastLogTime = 0], "clearAll", ok)

ClearAll(Writes) ==
    \E persistSession \in BOOLEAN, ok \in Writes :
      LET r == clearAll(currentSession, persisted, users, userGraveyard,
                        persistSession, "manual_clear", now)
      IN  /\ users' = r.users
          /\ userGraveyard' = r.userGraveyard
          /\ currentSession' = r.currentSession
          /\ persisted' = r.persisted
          /\ pre' = Snapshot
          /\ lastOp' = Op("clearAll", NoDelta, persistSession)
          /\ io' = clearAllFiles(io, ok)
          /\ UNCHANGED <<currentUserUuid, userCache, hpCache, enemyCache, IS_PAUSED, onlyRecordEliteDummy,
                         now, nextId, steps, frameVars, shutdownHookBound, shutdownHandlers, isPaused>>

\* a variant that hands the ending session to Sessions.addSession even when
\* no player qualifies
onInstanceChangedPersistsEmpty(session, log, us, gy, seq, reason, to, id, t) ==
    LET players == PlayersOf(us, gy)
        log1 == IF session # NoSession
                THEN Append(log, SessionToSave(session, players, reason, t))
                ELSE log
        mapId == IF to # None THEN to ELSE seq
    IN  [users |-> EmptyMap, userGraveyard |-> EmptyMap,
         persisted |-> log1,
         currentSession |-> [id |-> id, startedAt |-> t, reasonStart |-> reason,
                             seq |-> seq, instanceId |-> mapId, fromInstance |-> None]]

\* onInstanceChanged(seq, reason, {to}): finalize the current session, reset
\* the meter, start a new session
onInstanceChanged(session, log, us, gy, seq, reason, to, id, t) ==
    LET players == PlayersOf(us, gy)
        log1 == IF session # NoSession /\ players # {}
                THEN Append(log, SessionToSave(session, players, reason, t))
                ELSE log
        c == clearAll(NoSession, log1, us, gy, FALSE, "manual_clear", t)
        mapId == IF to # None THEN to ELSE seq
    IN  [users |-> c.users, userGraveyard |-> c.userGraveyard,
         persisted |-> c.persisted,
         currentSession |-> [id |-> id, startedAt |-> t, reasonStart |-> reason,
                             seq |-> seq, instanceId |-> mapId, fromInstance |-> None]]

OnInstanceChanged(Writes) ==
    \E to \in {None, 101}, ok \in Writes :
      /\ nextId <= MaxSessions
      /\ LET r == onInstanceChanged(currentSession, persisted, users, userGraveyard,
                                    nextId, "instance_change", to, nextId, now)
         IN  /\ users' = r.users
             /\ userGraveyard' = r.userGraveyard
             /\ currentSession' = r.currentSession
             /\ persisted' = r.persisted
      /\ nextId' = nextId + 1
      /\ pre' = Snapshot
      /\ lastOp' = Op("instanceChanged", NoDelta, to)
      /\ io' = clearAllFiles(io, ok)
      /\ UNCHANGED <<currentUserUuid, userCache, hpCache, enemyCache, IS_PAUSED, onlyRecordEliteDummy,
                     now, steps, frameVars, shutdownHookBound, shutdownHandlers, isPaused>>

\* loadUserCache(): the cache file replaces the cache, an absent file leaves it
loadUserCache(cache, file) == IF file.exists THEN file.data ELSE cache

\* _bindShutdownHooksOnce(): the new [shutdownHookBound, shutdownHandlers]
bindShutdownHooksOnce(bound, handlers) ==
    IF bound THEN [shutdownHookBound |-> bound, shutdownHandlers |-> handlers]
    ELSE [shutdownHookBound |-> TRUE, shutdownHandlers |-> handlers + 1]

\* init(): load the cache file, then bind the shutdown hooks
InitManager(Files) ==
    \E file \in Files :
      LET b == bindShutdownHooksOnce(shutdownHookBound, shutdownHandlers)
      IN  /\ userCache' = loadUserCache(userCache, file)
          /\ io' = [io EXCEPT !.usersJson = file]
          /\ shutdownHookBound' = b.shutdownHookBound
          /\ shutdownHandlers' = b.shutdownHandlers
          /\ pre' = Snapshot
          /\ lastOp' = Op("init", NoDelta, file.exists)
          /\ UNCHANGED <<currentUserUuid, users, userGraveyard, hpCache, enemyCache, currentSession,
                         persisted, IS_PAUSED, onlyRecordEliteDummy, now, nextId,
                         steps, frameVars, isPaused>>

\* the listeners of one shutdown event run in turn, each calling finalize(tag)
RECURSIVE runShutdownHandlers(_, _, _, _, _, _, _)
runShutdownHandlers(n, session, log, us, gy, tag, t) ==
    IF n = 0 THEN [currentSession |-> session, persisted |-> log]
    ELSE LET r == finalizeAndPersistSession(session, log, us, gy, tag, t)
         IN  runShutdownHandlers(n - 1, r.currentSession, r.persisted, us, gy, tag, t)

\* the SIGINT and SIGTERM listeners end with process.exit(0), which emits 'exit'
shutdown(n, session, log, us, gy, tag, t) ==
    LET r == runShutdownHandlers(n, session, log, us, gy, tag, t)
    IN  IF tag \in {"SIGINT", "SIGTERM"}
        THEN runShutdownHandlers(n, r.currentSession, r.persisted, us, gy, "exit", t)
        ELSE r

\* the process emits one of the shutdown events while listeners are bound;
\* an event may be emitted again (beforeExit fires each time the loop drains)
ShutdownHook(Events) ==
    \E tag \in Events :
      LET r == shutdown(shutdownHandlers, currentSession, persisted, users,
                        userGraveyard, tag, now)
      IN  /\ shutdownHandlers > 0
          /\ currentSession' = r.currentSession
          /\ persisted' = r.persisted
          /\ pre' = Snapshot
          /\ lastOp' = Op("shutdown", NoDelta, tag)
          /\ UNCHANGED <<currentUserUuid, io, users, userGraveyard, userCache, hpCache, enemyCache,
                         IS_PAUSED, onlyRecordEliteDummy, now, nextId, steps, frameVars, shutdownHookBound, shutdownHandlers, isPaused>>

(***************************************************************************)
(* GET /clear of the API router (routes/api.js)                            *)
(***************************************************************************)
\* saveCurrentSessionIfAny(): the log after it; the players are built from
\* the keys of userDataManager.users
saveCurrentSessionIfAny(session, log, us, gy, t) ==
    IF session = NoSession \/ AllUserIds(us, gy) = {} THEN log
    ELSE LET players == {uid \in DOMAIN us : buildsPlayerSnapshot(AnyUser(us, gy, uid))}
         IN  IF players = {} THEN log
             ELSE Append(log, SessionToSave(session, players, "manual_clear", t))

\* the handler: save, clearAll(), _startNewSession({mapNameBase}, 'manual_restart')
GetClear(Writes) ==
  \E ok \in Writes :
    /\ nextId <= MaxSessions
    /\ persisted' = saveCurrentSessionIfAny(currentSession, persisted, users,
                                            userGraveyard, now)
    /\ users' = EmptyMap
    /\ userGraveyard' = EmptyMap
    /\ currentSession' = [id |-> nextId, startedAt |-> now,
                          reasonStart |-> "manual_restart", seq |-> None,
                          instanceId |-> None, fromInstance |-> None]
    /\ nextId' = nextId + 1
    /\ pre' = Snapshot
    /\ lastOp' = Op("getClear", NoDelta, None)
    /\ io' = clearAllFiles(io, ok)
    /\ UNCHANGED <<currentUserUuid, userCache, hpCache, enemyCache, IS_PAUSED, onlyRecordEliteDummy,
                   now, steps, frameVars, shutdownHookBound, shutdownHandlers, isPaused>>

\* the save step of GET /clear up to `await Sessions.addSession(...)`: the
\* session is handed over and stays current
savesSessionBeforeClear(session, log, us, gy, t) ==
    [currentSession |-> session,
     persisted |-> saveCurrentSessionIfAny(session, log, us, gy, t)]

\* the handler runs until it awaits Sessions.addSession and is suspended
\* there; other events are served before the promise settles
GetClearAwaits ==
    LET r == savesSessionBeforeClear(currentSession, persisted, users,
                                     userGraveyard, now)
    IN  /\ io.clearAwaits = 0
        /\ nextId <= MaxSessions
        /\ r.persisted # persisted
        /\ persisted' = r.persisted
        /\ currentSession' = r.currentSession
        /\ io' = [io EXCEPT !.clearAwaits = @ + 1]
        /\ pre' = Snapshot
        /\ lastOp' = Op("getClearAwaits", NoDelta, None)
        /\ UNCHANGED <<currentUserUuid, users, userGraveyard, userCache, hpCache, enemyCache,
                       IS_PAUSED, onlyRecordEliteDummy, now, nextId, steps, frameVars,
                       shutdownHookBound, shutdownHandlers, isPaused>>

\* the promise settles and the handler goes on: clearAll(), then
\* _startNewSession({mapNameBase}, 'manual_restart')
GetClearResumes(Writes) ==
  \E ok \in Writes :
    /\ io.clearAwaits > 0
    /\ nextId <= MaxSessions
    /\ users' = EmptyMap
    /\ userGraveyard' = EmptyMap
    /\ currentSession' = [id |-> nextId, startedAt |-> now,
                          reasonStart |-> "manual_restart", seq |-> None,
                          instanceId |-> None, fromInstance |-> None]
    /\ nextId' = nextId + 1
    /\ pre' = Snapshot
    /\ lastOp' = Op("getClearResumes", NoDelta, None)
    /\ io' = clearAllFiles([io EXCEPT !.clearAwaits = @ - 1], ok)
    /\ UNCHANGED <<currentUserUuid, persisted, userCache, hpCache, enemyCache, IS_PAUSED,
                   onlyRecordEliteDummy, now, steps, frameVars, shutdownHookBound,
                   shutdownHandlers, isPaused>>

(***************************************************************************)
(* Timer callbacks and completions of file operations                      *)
(***************************************************************************)
\* a step that touches only the timers, lock and files
IoStep(I, op) ==
    /\ io' = I
    /\ pre' = Snapshot
    /\ lastOp' = op
    /\ UNCHANGED <<currentUserUuid, users, userGraveyard, userCache, hpCache, enemyCache,
                   currentSession, persisted, IS_PAUSED, isPaused, onlyRecordEliteDummy,
                   now, nextId, shutdownHookBound, shutdownHandlers, steps, frameVars>>

\* the callback of the constructor's 10 s interval
autoSaveTick(I, t, ok) ==
    IF I.lastLogTime < I.lastAutoSaveTime
    THEN [I EXCEPT !.loggedSinceTick = FALSE, !.nextAutoSave = t + 10 * 1000]
    ELSE saveAllUserData([I EXCEPT !.lastAutoSaveTime = t, !.loggedSinceTick = FALSE,
                                   !.nextAutoSave = t + 10 * 1000],
                         "autoSave", ok)

AutoSaveTick(Writes) ==
    \E ok \in Writes :
      /\ now >= io.nextAutoSave
      /\ IoStep(autoSaveTick(io, now, ok),
                Op("autoSave", NoDelta,
                   [wrote |-> ~(io.lastLogTime < io.lastAutoSaveTime),
                    logged |-> io.loggedSinceTick]))

MaxLogs == 2

\* addLog(log) called while fewer than cap calls are in progress
AddLog(cap) ==
    /\ io.logCalls.acquire + io.logCalls.dir + io.logCalls.append < cap
    /\ IoStep(addLog(Store, Config, now).io, Op("addLog", NoDelta, None))

\* Lock.acquire() resolves only while the lock is free
CanAcquire(I) == ~I.logLock

\* an addLog call obtains the lock; it goes on to the directory check unless
\* logDirExist already has its directory
logLockAcquired(I, dirKnown) ==
    [I EXCEPT !.logLock = TRUE,
              !.logCalls.acquire = @ - 1,
              !.logCalls.dir = IF dirKnown THEN @ ELSE @ + 1,
              !.logCalls.append = IF dirKnown THEN @ + 1 ELSE @]

LogLockAcquired ==
    \E dirKnown \in BOOLEAN :
      /\ io.logCalls.acquire > 0
      /\ CanAcquire(io)
      /\ IoStep(logLockAcquired(io, dirKnown), Op("logLock", NoDelta, dirKnown))

\* a variant that releases the lock between the directory check and the append
logDirCheckedReleases(I, ok) ==
    [I EXCEPT !.logCalls.dir = @ - 1,
              !.logCalls.append = IF ok THEN @ + 1 ELSE @,
              !.logLock = FALSE]

\* access/mkdir settles: on success the call goes on to the append, a failure
\* is caught and logged and the lock released
logDirChecked(I, ok) ==
    IF ok THEN [I EXCEPT !.logCalls.dir = @ - 1, !.logCalls.append = @ + 1]
    ELSE [I EXCEPT !.logCalls.dir = @ - 1, !.logLock = FALSE]

LogDirChecked(Writes) ==
    \E ok \in Writes :
      /\ io.logCalls.dir > 0
      /\ IoStep(logDirChecked(io, ok), Op("logDir", NoDelta, ok))

\* appendFile settles (a failure is caught and logged) and the lock is released
logAppended(I, ok) == [I EXCEPT !.logCalls.append = @ - 1, !.logLock = FALSE]

LogAppended(Writes) ==
    \E ok \in Writes :
      /\ io.logCalls.append > 0
      /\ IoStep(logAppended(io, ok), Op("logAppend", NoDelta, ok))

\* saveUserCache(): the cache is snapshotted and the write is awaited
saveUserCache(I, cache, by) ==
    [I EXCEPT !.cacheWrites = Append(@, [data |-> cache, by |-> by])]

\* the debounce timeout fires: either the one the manager holds or one whose
\* handle it dropped; the callback flushes only if pendingSave is set
cacheTimerFired(I, cache, held) ==
    LET I1 == IF held THEN [I EXCEPT !.saveThrottleTimer = "fired"]
              ELSE [I EXCEPT !.orphanTimers = @ - 1]
    IN  IF I1.pendingSave THEN saveUserCache(I1, cache, "timer") ELSE I1

CacheTimerFires ==
    \E held \in BOOLEAN :
      /\ IF held THEN io.saveThrottleTimer = "armed" ELSE io.orphanTimers > 0
      /\ IoStep(cacheTimerFired(io, userCache, held), Op("cacheTimer", NoDelta, held))

\* writeFile of the i-th pending saveUserCache settles (a failure is caught
\* and logged) and the awaiting caller resumes: the timer callback clears
\* pendingSave and saveThrottleTimer, forceUserCacheSave clears pendingSave
cacheWriteSettled(I, i, ok) ==
    LET w == I.cacheWrites[i]
        rest == SubSeq(I.cacheWrites, 1, i - 1) \o
                SubSeq(I.cacheWrites, i + 1, Len(I.cacheWrites))
        I1 == [I EXCEPT !.cacheWrites = rest,
                        !.usersJson = IF ok THEN [exists |-> TRUE, data |-> w.data] ELSE @,
                        !.pendingSave = FALSE]
    IN  IF w.by = "timer"
        THEN [I1 EXCEPT !.saveThrottleTimer = "null",
                        !.orphanTimers = IF I.saveThrottleTimer = "armed" THEN @ + 1 ELSE @]
        ELSE I1

CacheWriteSettles(Writes) ==
    \E i \in 1..Len(io.cacheWrites), ok \in Writes :
      IoStep(cacheWriteSettled(io, i, ok), Op("cacheWrite", NoDelta, ok))

\* forceUserCacheSave() once its saveAllUserData has succeeded: the timer is
\* cancelled and a pending flush is written at once
forceUserCacheSave(I, cache) ==
    LET I1 == [I EXCEPT !.saveThrottleTimer = "null"]
    IN  IF I1.pendingSave THEN saveUserCache(I1, cache, "force") ELSE I1

MaxWrites == 2

\* called while fewer than cap cache writes are pending
ForceUserCacheSave(cap) ==
    /\ Len(io.cacheWrites) < cap
    /\ IoStep(forceUserCacheSave(io, userCache), Op("forceSave", NoDelta, None))

(***************************************************************************)
(* #processSyncToMeDeltaInfo and #processSyncContainerDirtyData            *)
(***************************************************************************)
\* a to-me delta without a uuid is dropped; otherwise the uuid (a Long,
\* possibly zero) becomes the local player's and the base delta is processed
processSyncToMeDeltaInfo(S, cfg, uuid, m, t) ==
    IF m.Uuid = None THEN [store |-> S, uuid |-> uuid]
    ELSE [store |-> processDeltaInfos(S, cfg, m.BaseDelta, t), uuid |-> m.Uuid]

SyncToMeDeltaInfo(Messages, cap) ==
    \E m \in Messages :
      LET r == processSyncToMeDeltaInfo(Store, Config, currentUserUuid, m, now)
      IN  /\ steps < cap
          /\ SetStore(r.store)
          /\ currentUserUuid' = r.uuid
          /\ steps' = steps + 1
          /\ pre' = Snapshot
          /\ lastOp' = Op("toMe", m.BaseDelta, m.Uuid)
          /\ UNCHANGED <<currentSession, persisted, IS_PAUSED, onlyRecordEliteDummy,
                         now, nextId, frameVars, shutdownHookBound, shutdownHandlers,
                         isPaused>>

\* a read past the end of the buffer throws; the throw is caught and logged
\* by the packet loop
CanRead(buf, pos, n) == pos + n <= Len(buf)

\* bytes to text, for the letters the model uses
CharOf(b) ==
    CASE b = 65 -> "A" [] b = 66 -> "B" [] b = 98 -> "b"
      [] b = 110 -> "n" [] b = 111 -> "o" [] OTHER -> "?"
RECURSIVE BytesToString(_)
BytesToString(bs) == IF bs = <<>> THEN "" ELSE CharOf(Head(bs)) \o BytesToString(Tail(bs))

\* streamReadString(reader) at pos: length word, int32, the bytes, int32
streamReadString(buf, pos) ==
    BytesToString(SubSeq(buf, pos + 9, pos + 8 + WordVal(UInt32LE(buf, pos))))

\* case 2 (CharBase), the reader at pos: name (5) or fight score (35)
dirtyCharBase(S, uid, buf, pos, t) ==
    IF ~doesStreamHaveIdentifier(buf, pos) THEN S
    ELSE IF UInt32LE(buf, pos) = W(5)
    THEN IF CanRead(buf, pos + 8, 8)
            /\ CanRead(buf, pos + 8, 12 + WordVal(UInt32LE(buf, pos + 8)))
            /\ streamReadString(buf, pos + 8) # ""
         THEN setName(S, uid, streamReadString(buf, pos + 8), t)
         ELSE S
    ELSE IF UInt32LE(buf, pos) = W(35) /\ CanRead(buf, pos + 8, 8)
    THEN setFightPoint(S, uid, WordVal(UInt32LE(buf, pos + 8)), t)
    ELSE S

\* case 16 (UserFightAttr): hp (1) or max hp (2)
dirtyFightAttr(S, uid, buf, pos, t) ==
    IF ~doesStreamHaveIdentifier(buf, pos) THEN S
    ELSE IF UInt32LE(buf, pos) = W(1) /\ CanRead(buf, pos + 8, 4)
    THEN setAttrKV(S, uid, "hp", WordVal(UInt32LE(buf, pos + 8)), t)
    ELSE IF UInt32LE(buf, pos) = W(2) /\ CanRead(buf, pos + 8, 4)
    THEN setAttrKV(S, uid, "max_hp", WordVal(UInt32LE(buf, pos + 8)), t)
    ELSE S

\* case 61 (ProfessionList): the current profession id (1), when not zero
dirtyProfession(S, uid, buf, pos, t) ==
    IF ~doesStreamHaveIdentifier(buf, pos) THEN S
    ELSE IF UInt32LE(buf, pos) = W(1) /\ CanRead(buf, pos + 8, 8)
            /\ UInt32LE(buf, pos + 8) # W(0)
    THEN setProfession(S, uid, getProfessionNameFromId(WordVal(UInt32LE(buf, pos + 8))), t)
    ELSE S

\* the handler: nothing without a local player uuid or without the stream
\* identifier; doesStreamHaveIdentifier leaves the reader where it was, so
\* the field index is the word at the head of the buffer
processSyncContainerDirtyData(S, uuid, buf, t) ==
    IF uuid = 0 THEN S
    ELSE IF buf = <<>> THEN S
    ELSE IF ~doesStreamHaveIdentifier(buf, 0) THEN S
    ELSE IF UInt32LE(buf, 0) = W(2) THEN dirtyCharBase(S, UuidToUid(uuid), buf, 8, t)
    ELSE IF UInt32LE(buf, 0) = W(16) THEN dirtyFightAttr(S, UuidToUid(uuid), buf, 8, t)
    ELSE IF UInt32LE(buf, 0) = W(61) THEN dirtyProfession(S, UuidToUid(uuid), buf, 8, t)
    ELSE S

SyncContainerDirtyData(Blobs, cap) ==
    \E buf \in Blobs :
      /\ steps < cap
      /\ SetStore(processSyncContainerDirtyData(Store, currentUserUuid, buf, now))
      /\ steps' = steps + 1
      /\ pre' = Snapshot
      /\ lastOp' = Op("dirtyData", buf, currentUserUuid)
      /\ UNCHANGED <<currentUserUuid, currentSession, persisted, IS_PAUSED,
                     onlyRecordEliteDummy, now, nextId, frameVars, shutdownHookBound,
                     shutdownHandlers, isPaused>>

(***************************************************************************)
(* #processSyncNearEntities                                                *)
(***************************************************************************)
\* a variant of the wipe heuristic without the floor of ten disappearances
aoiWipeWithoutMinimum(a, d) == d >= (4 * (a + d)) \div 5

\* disappearCount >= Math.max(10, Math.floor(0.8 * (appear.length +
\* disappearCount))); for the list lengths of the model the floor of the
\* floating-point product is the integer quotient of 4n by 5
aoiWipe(a, d) ==
    d >= (IF 10 >= (4 * (a + d)) \div 5 THEN 10 ELSE (4 * (a + d)) \div 5)

\* a variant that lets the uuid bit-tag decide before the entity-type field
routeByTagFirst(e) ==
    IF isUuidMonster(e.Uuid) THEN "enemy"
    ELSE IF isUuidPlayer(e.Uuid) THEN "player"
    ELSE IF e.EntType = "EntMonster" THEN "enemy"
    ELSE IF e.EntType = "EntChar" THEN "player"
    ELSE "none"

\* which attribute processing an appeared entity gets; EntType is "" when
\* the field is absent
entityRoute(e) ==
    LET guessPlayer == isUuidPlayer(e.Uuid)
        guessMonster == isUuidMonster(e.Uuid)
        isMonster == e.EntType = "EntMonster" \/ (e.EntType = "" /\ guessMonster)
        isChar == e.EntType = "EntChar" \/ (e.EntType = "" /\ guessPlayer)
    IN  IF isMonster THEN "enemy"
        ELSE IF isChar THEN "player"
        ELSE IF guessMonster THEN "enemy"
        ELSE IF guessPlayer THEN "player"
        ELSE "none"

processAppeared(S, e, t) ==
    IF e.Uuid = None \/ e.Attrs = <<>> THEN S
    ELSE IF entityRoute(e) = "enemy" THEN processEnemyAttrs(S, UuidToUid(e.Uuid), e.Attrs)
    ELSE IF entityRoute(e) = "player"
    THEN processPlayerAttrs(S, UuidToUid(e.Uuid), e.Attrs, t)
    ELSE S

RECURSIVE processAppear(_, _, _)
processAppear(S, appear, t) ==
    IF appear = <<>> THEN S
    ELSE processAppear(processAppeared(S, Head(appear), t), Tail(appear), t)

\* the calls the handler makes on the instance tracker
trackerCalls(uuid, m) ==
    [onAoiWipe |-> aoiWipe(Len(m.Appear), Len(m.Disappear)),
     onSelfAppearedInAoi |->
         uuid # 0 /\ \E i \in 1..Len(m.Appear) : m.Appear[i].Uuid = uuid,
     onPopulationDelta |-> Len(m.Appear) - Len(m.Disappear),
     onSelfDisappearedFromAoi |->
         uuid # 0 /\ \E i \in 1..Len(m.Disappear) : m.Disappear[i].Uuid = uuid]

SyncNearEntities(Messages, cap) ==
    \E m \in Messages :
      /\ steps < cap
      /\ SetStore(processAppear(Store, m.Appear, now))
      /\ steps' = steps + 1
      /\ pre' = Snapshot
      /\ lastOp' = Op("nearEntities", m, trackerCalls(currentUserUuid, m))
      /\ UNCHANGED <<currentUserUuid, currentSession, persisted, IS_PAUSED,
                     onlyRecordEliteDummy, now, nextId, frameVars, shutdownHookBound,
                     shutdownHandlers, isPaused>>

(***************************************************************************)
(* The pause routes of the API router (routes/api.js)                      *)
(***************************************************************************)
\* POST /pause {paused}
PostPause ==
    \E paused \in BOOLEAN :
      /\ isPaused' = paused
      /\ pre' = Snapshot
      /\ lastOp' = Op("postPause", NoDelta, paused)
      /\ UNCHANGED <<currentUserUuid, io, users, userGraveyard, userCache, hpCache, enemyCache,
                     currentSession, persisted, IS_PAUSED, onlyRecordEliteDummy,
                     now, nextId, steps, frameVars, shutdownHookBound, shutdownHandlers>>

\* GET /pause: the response carries isPaused
GetPause ==
    /\ pre' = Snapshot
    /\ lastOp' = Op("getPause", NoDelta, isPaused)
    /\ UNCHANGED <<currentUserUuid, io, users, userGraveyard, userCache, hpCache, enemyCache,
                   currentSession, persisted, IS_PAUSED, isPaused, onlyRecordEliteDummy,
                   now, nextId, steps, frameVars, shutdownHookBound, shutdownHandlers>>

(***************************************************************************)
(* The decoded deltas the combat path is driven with                       *)
(***************************************************************************)
P0 == MakeUuid(0, 640)
P1 == MakeUuid(1, 640)
P2 == MakeUuid(2, 640)
M7 == MakeUuid(7, 64)
M8 == MakeUuid(8, 64)
\* an entity that is neither a player nor a monster
X9 == MakeUuid(9, 0)

Attr(id, value) == [Id |-> id, value |-> value]

Damage(skillId, attacker, value, lucky, type, isDead) ==
    [OwnerId |-> skillId, TopSummonerId |-> None, AttackerUuid |-> attacker,
     Value |-> IF lucky THEN None ELSE value,
     LuckyValue |-> IF lucky THEN value ELSE None,
     TypeFlag |-> IF lucky THEN 5 ELSE 0,
     Type |-> type, IsDead |-> isDead]

AttrsDelta(uuid, attrs) == [Uuid |-> uuid, Attrs |-> attrs, Damages |-> <<>>]
DamageDelta(target, d) == [Uuid |-> target, Attrs |-> <<>>, Damages |-> <<d>>]

EnemyAttrs == <<Attr(AttrType_AttrId, 10), Attr(AttrType_AttrHp, 90), Attr(AttrType_AttrMaxHp, 100)>>

AttrMessages ==
    { <<AttrsDelta(M7, EnemyAttrs), AttrsDelta(M8, EnemyAttrs)>>,
      <<AttrsDelta(M7, <<Attr(AttrType_AttrHp, 50)>>)>>,
      <<AttrsDelta(P1, <<Attr(AttrType_AttrProfessionId, 2)>>)>> }

DamageMessages ==
    {<<DamageDelta(target, Damage(1241, attacker, 10, FALSE, type, isDead))>> :
        target \in {P1, P2, M7, X9}, attacker \in {P0, P1, M7},
        type \in {"Normal", "Heal"}, isDead \in BOOLEAN}
    \cup {<<DamageDelta(M7, Damage(1241, P1, 10, TRUE, "Normal", FALSE))>>,
          <<DamageDelta(P2, Damage(1241, P1, 10, TRUE, "Heal", FALSE))>>}

CombatMessages == AttrMessages \cup DamageMessages

\* P1 deals damage to a monster, P2 heals P1, around the persistence threshold
SessionMessages ==
    {<<DamageDelta(M7, Damage(1241, P1, value, FALSE, "Normal", FALSE))>> :
        value \in {5000, 5001}}
    \cup {<<DamageDelta(P1, Damage(1241, P2, value, FALSE, "Heal", FALSE))>> :
        value \in {5000, 5001}}

(***************************************************************************)
(* Specifications                                                          *)
(***************************************************************************)
\* the frame pipeline fed by the capture source
Init == FrameInit /\ StoreInit({FALSE}, {FALSE}, {FALSE})
Next == ProcessDataChunk \/ ProcessPacket
Spec == Init /\ [][Next]_vars

\* the combat path under the runtime configuration
InitCombat == FrameIdle /\ StoreInit(BOOLEAN, BOOLEAN, {FALSE})
\* the manager as constructed, recording everything
InitSession == FrameIdle /\ StoreInit({FALSE}, {FALSE}, {FALSE})
NextCombat == SyncNearDeltaInfo(CombatMessages, MaxSteps)
SpecCombat == InitCombat /\ [][NextCombat]_vars

\* P1's profession and the skills that reveal a sub-profession: users.json
\* as an earlier run left it, profession attributes, casts of frostbeam
\* (1241), icicle (120901) and a skill of no sub-profession, a heal cast
MaxCasts == 4

ProfessionFiles ==
    {NoFile,
     [exists |-> TRUE,
      data |-> Put(EmptyMap, 1, [NoCacheEntry EXCEPT !.profession = "Frost Mage"])]}

ProfessionMessages ==
    {<<AttrsDelta(P1, <<Attr(AttrType_AttrProfessionId, id)>>)>> : id \in {1, 2}}
    \cup {<<DamageDelta(M7, Damage(skillId, P1, 10, FALSE, "Normal", FALSE))>> :
            skillId \in {1241, 120901, 7}}
    \cup {<<DamageDelta(P2, Damage(120901, P1, 10, FALSE, "Heal", FALSE))>>}

NextProfession ==
    \/ InitManager(ProfessionFiles)
    \/ SyncNearDeltaInfo(ProfessionMessages, MaxCasts)
    \/ GetUser
    \/ Tick({60000, 60001})
    \/ CleanUpInactiveUsers
    \/ ClearAll({TRUE})
SpecProfession == InitSession /\ [][NextProfession]_vars

\* casts of P1 over the range of raw skill ids, as damage and as heals
SkillMessages ==
    {<<DamageDelta(M7, Damage(skillId, P1, 10, FALSE, "Normal", FALSE))>> :
        skillId \in {1, 1241, HEAL_OFFSET - 1}}
    \cup {<<DamageDelta(P2, Damage(skillId, P1, 10, FALSE, "Heal", FALSE))>> :
        skillId \in {1, 1241, HEAL_OFFSET - 1}}

NextSkills == SyncNearDeltaInfo(SkillMessages, MaxCasts)
SpecSkills == InitSession /\ [][NextSkills]_vars

\* the pause routes and the combat path
InitPause == FrameIdle /\ StoreInit(BOOLEAN, {FALSE}, {FALSE})
NextPause == PostPause \/ GetPause \/ SyncNearDeltaInfo(SessionMessages, MaxSteps)
SpecPause == InitPause /\ [][NextPause]_vars

\* enemies seen, then a session reset
NextReset == SyncNearDeltaInfo(AttrMessages, MaxSteps) \/ ClearAll({TRUE}) \/ OnInstanceChanged({TRUE})
SpecReset == InitSession /\ [][NextReset]_vars

\* the manager once init() has run at start-up, with no cache file
InitStarted == FrameIdle /\ StoreInit({FALSE}, {FALSE}, {TRUE})

\* the registry and the session life cycle
NextSession ==
    \/ SyncNearDeltaInfo(SessionMessages, MaxSteps)
    \/ Tick({60000, 60001})
    \/ CleanUpInactiveUsers
    \/ OnInstanceChanged({TRUE})
    \/ ClearAll({TRUE})
    \/ ShutdownHook({"SIGINT"})
SpecSession == InitStarted /\ [][NextSession]_vars

\* the three ways a session ends, with users going inactive in between
NextClear ==
    \/ SyncNearDeltaInfo(SessionMessages, MaxSteps)
    \/ Tick({60000, 60001})
    \/ CleanUpInactiveUsers
    \/ OnInstanceChanged({TRUE})
    \/ GetClear({TRUE})
    \/ ShutdownHook({"SIGINT"})
SpecClear == InitStarted /\ [][NextClear]_vars

\* start-up and shutdown around a session
NextShutdown ==
    \/ InitManager({NoFile})
    \/ SyncNearDeltaInfo(SessionMessages, MaxSteps)
    \/ OnInstanceChanged({TRUE})
    \/ ShutdownHook({"SIGINT", "SIGTERM", "beforeExit", "exit"})
SpecShutdown == InitSession /\ [][NextShutdown]_vars

(***************************************************************************)
(* Properties of the frame pipeline                                        *)
(***************************************************************************)
\* a is b with some elements left out, order kept
RECURSIVE IsSubseq(_, _)
IsSubseq(a, b) ==
    IF a = <<>> THEN TRUE
    ELSE IF b = <<>> THEN FALSE
    ELSE IF Head(a) = Head(b) THEN IsSubseq(Tail(a), Tail(b))
    ELSE IsSubseq(a, Tail(b))

Occurrences(f, frames) == Cardinality({i \in 1..Len(frames) : frames[i] = f})

\* the bytes the assembler holds when the most recent chunk call starts parsing
Backlog == last.bufBefore \o last.input

\* C1: once the bytes of one valid frame have been fed to processDataChunk,
\* in whatever chunks, exactly one frame equal to it has been dispatched.
C1_FrameRoundTrip ==
    (stream = <<>> /\ IsValidFrame(fed)) => Occurrences(fed, dispatched) = 1

C3_PartialKept ==
    (last.op = "chunk" /\ IsProperFramePrefix(Backlog))
        => (last.out = <<>> /\ internalBuffer = Backlog)

\* C4: a chunk call that finds a declared length outside [MIN, MAX] at the
\* head of the backlog (in either byte order) leaves the buffer empty and
\* dispatches nothing.
C4_LengthOutOfRange ==
    (/\ last.op = "chunk"
     /\ Len(Backlog) >= 4
     /\ OutOfRange(UInt32BE(Backlog, 0))
     /\ OutOfRange(UInt32LE(Backlog, 0)))
        => (internalBuffer = <<>> /\ last.out = <<>>)

\* C5: the assembler judges a header invalid only when no valid frame
\* stands at the head of the buffer (and then drops exactly four bytes).
C5_InvalidOnlyIfNoFrame ==
    last.op = "chunk" =>
        \A i \in 1..Len(last.invalidHeads) : ~HasFrameAtHead(last.invalidHeads[i])

\* C6: processPacket dispatches every frame of a well-formed input, whatever
\* happens while one of them is handled.
C6_FailureIsLocal ==
    (last.op = "packet" /\ WellFormed(last.input, zstdAvailable))
        => last.out = FramesInOrder(last.input, zstdAvailable)

(***************************************************************************)
(* Properties of the combat path and of the session gate                   *)
(***************************************************************************)
\* the record of a user, live or graveyarded; a user never seen has no statistics
UserView(us, gy, uid) ==
    IF Has(us, uid) THEN us[uid] ELSE IF Has(gy, uid) THEN gy[uid] ELSE UserData(uid, 0)

KnownUids ==
    (DOMAIN users) \cup (DOMAIN userGraveyard) \cup (DOMAIN pre.users) \cup (DOMAIN pre.userGraveyard)

Before(uid) == UserView(pre.users, pre.userGraveyard, uid)
After(uid) == UserView(users, userGraveyard, uid)

\* the most recent operation handled a message of one delta carrying one
\* damage record that the loop does not skip
IsDamageEvent ==
    /\ lastOp.op = "delta"
    /\ Len(lastOp.delta) = 1
    /\ Len(lastOp.delta[1].Damages) = 1
    /\ ~IsSkipped(lastOp.delta[1].Damages[1])

LastTarget == lastOp.delta[1].Uuid
LastDamage == lastOp.delta[1].Damages[1]
LastAttackerIsPlayer == isUuidPlayer(AttackerOf(LastDamage))
LastAttackerUid == UuidToUid(AttackerOf(LastDamage))

DealtUnchanged(uid) ==
    /\ After(uid).damageStats = Before(uid).damageStats
    /\ After(uid).skillUsage = Before(uid).skillUsage
HealingUnchanged(uid) == After(uid).healingStats = Before(uid).healingStats
TakenUnchanged(uid) ==
    /\ After(uid).takenDamage = Before(uid).takenDamage
    /\ After(uid).deadCount = Before(uid).deadCount

C7_Case == IsDamageEvent /\ isUuidPlayer(LastTarget) /\ LastDamage.Type # "Heal"

\* C7: a non-heal event on a player target leaves every user's damage-dealt
\* total, per-skill statistics and healing untouched, whoever the attacker is;
\* it adds the damage to the target's taken-damage total (unless paused),
\* counts the death and zeroes the cached hp when the death flag is set, and
\* touches no other user's taken damage and no enemy entry.
C7_PlayerTargetDamage ==
    C7_Case =>
      LET target == UuidToUid(LastTarget) IN
      /\ \A uid \in KnownUids : DealtUnchanged(uid) /\ HealingUnchanged(uid)
      /\ \A uid \in KnownUids \ {target} : TakenUnchanged(uid)
      /\ After(target).takenDamage =
            Before(target).takenDamage + (IF IS_PAUSED THEN 0 ELSE DamageOf(LastDamage))
      /\ After(target).deadCount =
            Before(target).deadCount + (IF LastDamage.IsDead /\ ~IS_PAUSED THEN 1 ELSE 0)
      /\ hpCache = IF LastDamage.IsDead THEN Put(pre.hpCache, target, 0) ELSE pre.hpCache
      /\ enemyCache = pre.enemyCache

C7_Witness ==
    /\ C7_Case
    /\ ~IS_PAUSED
    /\ LastDamage.IsDead
    /\ LastAttackerIsPlayer
    /\ LastAttackerUid # UuidToUid(LastTarget)
    /\ Before(LastAttackerUid).damageStats.stats.total > 0
    /\ After(UuidToUid(LastTarget)).takenDamage > 0
    /\ hpCache[UuidToUid(LastTarget)] = 0

C8_Case == IsDamageEvent /\ isUuidMonster(LastTarget)
C8_Credited == LastDamage.Type # "Heal" /\ LastAttackerIsPlayer
C8_Recording == ~IS_PAUSED /\ ~(onlyRecordEliteDummy /\ UuidToUid(LastTarget) # 75)

\* C8: an event on a monster target changes damage statistics only when it is
\* a non-heal event with a player attacker, and then only the attacker's
\* (by the damage, while recording is on); with the death flag the monster's
\* uid leaves the name, hp and max-hp maps and every other entry stays.
C8_MonsterTarget ==
    C8_Case =>
      LET m == UuidToUid(LastTarget)
          a == LastAttackerUid
          d == LastDamage
      IN
      /\ \A uid \in KnownUids : HealingUnchanged(uid) /\ TakenUnchanged(uid)
      /\ \A uid \in KnownUids : (uid # a \/ ~C8_Credited \/ ~C8_Recording) => DealtUnchanged(uid)
      /\ (C8_Credited /\ C8_Recording) =>
            /\ After(a).damageStats.stats.total = Before(a).damageStats.stats.total + DamageOf(d)
            /\ After(a).damageStats.count.total = Before(a).damageStats.count.total + 1
            /\ SkillStat(After(a), d.OwnerId, "damage").stats.total =
                  SkillStat(Before(a), d.OwnerId, "damage").stats.total + DamageOf(d)
      /\ IF d.IsDead
         THEN \A f \in {"name", "hp", "maxHp"} : enemyCache[f] = Remove(pre.enemyCache[f], m)
         ELSE enemyCache = pre.enemyCache

C8_Witness ==
    /\ C8_Case
    /\ C8_Credited
    /\ C8_Recording
    /\ LastDamage.IsDead
    /\ \A f \in {"name", "hp", "maxHp"} :
          /\ Has(pre.enemyCache[f], UuidToUid(LastTarget))
          /\ ~Has(enemyCache[f], UuidToUid(LastTarget))
          /\ Has(enemyCache[f], UuidToUid(M8))
    /\ After(LastAttackerUid).damageStats.stats.total > 0

C9_Case == IsDamageEvent /\ isUuidPlayer(LastTarget) /\ LastDamage.Type = "Heal"

\* C9 as stated: a heal on a player target is credited (while recording is
\* on) to the attacker when it is a player, and to the user with uid 0 when
\* it is not.
C9_HealCreditedOrUid0 ==
    (C9_Case /\ ~IS_PAUSED) =>
      LET c == IF LastAttackerIsPlayer THEN LastAttackerUid ELSE 0 IN
      After(c).healingStats.stats.total =
          Before(c).healingStats.stats.total + DamageOf(LastDamage)

C9_Credited == LastAttackerIsPlayer /\ LastAttackerUid # 0 /\ ~IS_PAUSED

\* C9 amended: a heal on a player target is credited, while recording is on,
\* to a player attacker with a non-zero uid, in its healing total and in its
\* per-skill entry keyed skill id + HEAL_OFFSET; in every other case (the
\* attacker is not a player, so the heal is routed as uid 0) it is credited
\* to no user.  No damage-dealt or taken-damage statistic changes.
C9_HealCredit ==
    C9_Case =>
      LET a == LastAttackerUid
          d == LastDamage
      IN
      /\ C9_Credited =>
            /\ After(a).healingStats.stats.total =
                  Before(a).healingStats.stats.total + DamageOf(d)
            /\ SkillStat(After(a), d.OwnerId + HEAL_OFFSET, "healing").stats.total =
                  SkillStat(Before(a), d.OwnerId + HEAL_OFFSET, "healing").stats.total + DamageOf(d)
            /\ After(a).damageStats = Before(a).damageStats
      /\ \A uid \in KnownUids : (uid # a \/ ~C9_Credited) => (HealingUnchanged(uid) /\ DealtUnchanged(uid))
      /\ \A uid \in KnownUids : TakenUnchanged(uid)

C9_Witness ==
    /\ C9_Case
    /\ ~IS_PAUSED
    /\ ~LastAttackerIsPlayer
    /\ ~Has(users, 0)
    /\ \E uid \in KnownUids : Before(uid).healingStats.stats.total > 0

\* users whose total damage or total healing is strictly above 5000
Qualifying(us, gy) ==
    {uid \in AllUserIds(us, gy) :
        \/ AnyUser(us, gy, uid).damageStats.stats.total > 5000
        \/ AnyUser(us, gy, uid).healingStats.stats.total > 5000}

\* the most recent operation finalized a current session
C10_Finalized ==
    /\ \/ lastOp.op \in {"instanceChanged", "shutdown"}
       \/ (lastOp.op = "clearAll" /\ lastOp.arg)
    /\ pre.currentSession # NoSession

\* C10: finalizing a session calls Sessions.addSession zero times when no
\* user is above 5000 in damage or healing, and exactly once otherwise, with
\* partySize the number of users above 5000 and the id of that session.
C10_PersistenceGate ==
    C10_Finalized =>
      LET q == Qualifying(pre.users, pre.userGraveyard) IN
      IF q = {} THEN persisted = pre.persisted
      ELSE /\ Len(persisted) = Len(pre.persisted) + 1
           /\ SubSeq(persisted, 1, Len(pre.persisted)) = pre.persisted
           /\ persisted[Len(persisted)].partySize = Cardinality(q)
           /\ persisted[Len(persisted)].id = pre.currentSession.id

C10_Witness ==
    /\ C10_Finalized
    /\ lastOp.op = "shutdown"
    /\ Cardinality(Qualifying(pre.users, pre.userGraveyard)) = 1
    /\ \E uid \in AllUserIds(pre.users, pre.userGraveyard) :
          AnyUser(pre.users, pre.userGraveyard, uid).healingStats.stats.total = 5000
    /\ Len(persisted) = 1
    /\ persisted[1].partySize = 1

(***************************************************************************)
(* C11: an onInstanceChanged call leaves the live registry and the         *)
(* graveyard empty and a new current session in place, whose id was never  *)
(* used before and whose instanceId is the target instance (the sequence   *)
(* number when no target is given); it hands nothing to the persistence    *)
(* collaborator when no player qualifies, and in particular when it        *)
(* directly follows another onInstanceChanged call.                        *)
(***************************************************************************)
IsInstanceChangeStep == lastOp'.op = "instanceChanged" /\ nextId' = nextId + 1

SessionIdsOf(log) == {log[i].id : i \in 1..Len(log)}

C11_FreshSession ==
    /\ users' = EmptyMap
    /\ userGraveyard' = EmptyMap
    /\ currentSession' # NoSession
    /\ currentSession'.id # currentSession.id
    /\ currentSession'.id \notin SessionIdsOf(persisted')
    /\ currentSession'.instanceId =
         (IF lastOp'.arg # None THEN lastOp'.arg ELSE currentSession'.seq)

C11_ConsecutiveInstanceChanges ==
    [][IsInstanceChangeStep =>
         /\ C11_FreshSession
         /\ Qualifying(users, userGraveyard) = {} => persisted' = persisted
         /\ lastOp.op = "instanceChanged" => persisted' = persisted]_vars

\* the second of two consecutive onInstanceChanged calls has just returned
C11_Witness ==
    /\ lastOp.op = "instanceChanged"
    /\ pre.currentSession # NoSession
    /\ pre.currentSession.id = 1
    /\ pre.users = EmptyMap /\ pre.userGraveyard = EmptyMap
    /\ steps = 0
    /\ currentSession.id = 2
    /\ persisted = <<>>

(***************************************************************************)
(* C12: however often init() runs, each shutdown event has exactly one     *)
(* listener once the hooks are bound; a shutdown event leaves no current   *)
(* session, hands the session that was current to Sessions.addSession      *)
(* exactly once when a user of it is above 5000 and not at all otherwise,  *)
(* and no session is ever handed over twice, whatever events follow.       *)
(***************************************************************************)
C12_SessionsPersistedOnce ==
    \A i, j \in 1..Len(persisted) : i # j => persisted[i].id # persisted[j].id

C12_ShutdownStep ==
    lastOp.op = "shutdown" =>
      /\ currentSession = NoSession
      /\ IF pre.currentSession # NoSession
            /\ Qualifying(pre.users, pre.userGraveyard) # {}
         THEN /\ Len(persisted) = Len(pre.persisted) + 1
              /\ SubSeq(persisted, 1, Len(pre.persisted)) = pre.persisted
              /\ persisted[Len(persisted)].id = pre.currentSession.id
              /\ persisted[Len(persisted)].reasonEnd = lastOp.arg
         ELSE persisted = pre.persisted

C12_ShutdownExactlyOnce ==
    /\ shutdownHandlers = (IF shutdownHookBound THEN 1 ELSE 0)
    /\ C12_SessionsPersistedOnce
    /\ C12_ShutdownStep

\* a shutdown event has fired again after one that persisted the session
C12_Witness ==
    /\ lastOp.op = "shutdown"
    /\ shutdownHandlers = 1
    /\ pre.currentSession = NoSession
    /\ Len(pre.persisted) = 1
    /\ pre.persisted[1].reasonEnd \in {"SIGINT", "SIGTERM", "beforeExit", "exit"}
    /\ persisted = pre.persisted

(***************************************************************************)
(* C13: when a cast credited to an existing user whose profession is known *)
(* maps to a sub-profession B, B's usage count grows by one; with no       *)
(* sub-profession set the user takes B at once; with sub-profession A      *)
(* different from B the user switches to B exactly when B's count,         *)
(* this cast included, is at least twice A's count, and keeps A otherwise. *)
(***************************************************************************)
C13_Candidate == getSubProfessionBySkillId(LastDamage.OwnerId)

C13_Case ==
    /\ IsDamageEvent
    /\ ~IS_PAUSED
    /\ LastAttackerIsPlayer
    /\ \/ isUuidMonster(LastTarget) /\ LastDamage.Type # "Heal"
       \/ isUuidPlayer(LastTarget) /\ LastDamage.Type = "Heal"
    /\ LastAttackerUid \in (DOMAIN pre.users) \cup (DOMAIN pre.userGraveyard)
    /\ Before(LastAttackerUid).profession \notin {"...", ""}
    /\ C13_Candidate # ""

C13_Switch(b, a, A, B) ==
    /\ UsageOf(a, B) = UsageOf(b, B) + 1
    /\ IF A = "" THEN a.subProfession = B
       ELSE IF A = B THEN a.subProfession = A
       ELSE /\ a.subProfession \in {A, B}
            /\ a.subProfession = B <=> UsageOf(a, B) >= 2 * UsageOf(b, A)

C13_Hysteresis ==
    C13_Case =>
      C13_Switch(Before(LastAttackerUid), After(LastAttackerUid),
                 Before(LastAttackerUid).subProfession, C13_Candidate)

\* frostbeam once, icicle once, and the second icicle has just switched
C13_Witness ==
    /\ C13_Case
    /\ Before(LastAttackerUid).subProfession = "frostbeam"
    /\ After(LastAttackerUid).subProfession = "icicle"
    /\ UsageOf(After(LastAttackerUid), "frostbeam") = 1
    /\ UsageOf(After(LastAttackerUid), "icicle") = 2

(***************************************************************************)
(* C14: every user record, live or in the graveyard, that has a            *)
(* sub-profession has a known profession (neither the default "..." nor    *)
(* empty), whatever casts, profession changes, clears, creations from the  *)
(* cache users.json and revivals from the graveyard came before.           *)
(***************************************************************************)
C14_KnownProfession(u) ==
    u.subProfession # "" => u.profession \notin {"...", ""}

C14_SubProfessionNeedsProfession ==
    /\ \A uid \in DOMAIN users : C14_KnownProfession(users[uid])
    /\ \A uid \in DOMAIN userGraveyard : C14_KnownProfession(userGraveyard[uid])

\* a user created from the cache file by a cast, which set its sub-profession
C14_Witness ==
    /\ IsDamageEvent
    /\ LastAttackerUid \notin (DOMAIN pre.users) \cup (DOMAIN pre.userGraveyard)
    /\ Has(pre.userCache, LastAttackerUid)
    /\ Has(users, LastAttackerUid)
    /\ users[LastAttackerUid].profession = pre.userCache[LastAttackerUid].profession
    /\ users[LastAttackerUid].subProfession # ""

(***************************************************************************)
(* C15: a credited heal with raw skill id s, 0 <= s < 1000000000, is       *)
(* accumulated in the per-skill entry of key s + 1000000000 and a credited *)
(* damage in the entry of key s; getSkillSummary recovers s from either    *)
(* key as key mod 1000000000; and each of the two leaves the other's       *)
(* entry of the same user as it was.                                       *)
(***************************************************************************)
C15_Case ==
    /\ IsDamageEvent
    /\ ~IS_PAUSED
    /\ LastAttackerIsPlayer
    /\ \/ isUuidMonster(LastTarget) /\ LastDamage.Type # "Heal"
       \/ isUuidPlayer(LastTarget) /\ LastDamage.Type = "Heal"
    /\ LastDamage.OwnerId >= 0 /\ LastDamage.OwnerId < HEAL_OFFSET

C15_Filed(b, a, s, key, other, type) ==
    /\ key # other
    /\ Has(a.skillUsage, key)
    /\ a.skillUsage[key].type = type
    /\ a.skillUsage[key].count.total = SkillStat(b, key, type).count.total + 1
    /\ getSkillSummary(a)[key].baseSkillId = s
    /\ Has(a.skillUsage, other) = Has(b.skillUsage, other)
    /\ Has(a.skillUsage, other) =>
         /\ a.skillUsage[other] = b.skillUsage[other]
         /\ a.skillUsage[other].type # type
         /\ getSkillSummary(a)[other].baseSkillId = s

C15_HealOffset ==
    C15_Case =>
      IF LastDamage.Type = "Heal"
      THEN C15_Filed(Before(LastAttackerUid), After(LastAttackerUid), LastDamage.OwnerId,
                     LastDamage.OwnerId + HEAL_OFFSET, LastDamage.OwnerId, "healing")
      ELSE C15_Filed(Before(LastAttackerUid), After(LastAttackerUid), LastDamage.OwnerId,
                     LastDamage.OwnerId, LastDamage.OwnerId + HEAL_OFFSET, "damage")

\* a heal with the largest raw skill id by a user who dealt damage with it
C15_Witness ==
    /\ C15_Case
    /\ LastDamage.Type = "Heal"
    /\ LastDamage.OwnerId = HEAL_OFFSET - 1
    /\ Has(After(LastAttackerUid).skillUsage, HEAL_OFFSET - 1)
    /\ Has(After(LastAttackerUid).skillUsage, 2 * HEAL_OFFSET - 1)
    /\ getSkillSummary(After(LastAttackerUid))[2 * HEAL_OFFSET - 1].totalHealing = 10
    /\ getSkillSummary(After(LastAttackerUid))[HEAL_OFFSET - 1].totalDamage = 10

(***************************************************************************)
(* C16: while config.IS_PAUSED is set, a message of damage records, which  *)
(* reaches the store only through addDamage, addHealing and                *)
(* addTakenDamage, changes no user's damage, healing, taken damage, death  *)
(* count, per-skill statistics, sub-profession or sub-profession counters. *)
(***************************************************************************)
C16_StatsUnchanged(uid) ==
    /\ DealtUnchanged(uid)
    /\ HealingUnchanged(uid)
    /\ TakenUnchanged(uid)
    /\ After(uid).subProfession = Before(uid).subProfession
    /\ After(uid).subProfessionUsage = Before(uid).subProfessionUsage

C16_Case ==
    /\ IS_PAUSED
    /\ lastOp.op = "delta"
    /\ \A i \in 1..Len(lastOp.delta) : lastOp.delta[i].Attrs = <<>>

C16_PausedIsNoOp == C16_Case => \A uid \in KnownUids : C16_StatsUnchanged(uid)

\* a lethal hit on a player while paused: the record exists and counts nothing
C16_Witness ==
    /\ C16_Case
    /\ IsDamageEvent
    /\ isUuidPlayer(LastTarget)
    /\ LastDamage.Type # "Heal"
    /\ LastDamage.IsDead
    /\ Has(users, UuidToUid(LastTarget))
    /\ users[UuidToUid(LastTarget)].takenDamage = 0
    /\ users[UuidToUid(LastTarget)].deadCount = 0

(***************************************************************************)
(* C17: the value set by POST /pause and returned by GET /pause is the     *)
(* flag that gates addDamage, addHealing and addTakenDamage, and while it  *)
(* is set a message of damage records changes no user's statistics.        *)
(***************************************************************************)
C17_PauseGoverns ==
    /\ isPaused = IS_PAUSED
    /\ (/\ isPaused
        /\ lastOp.op = "delta"
        /\ \A i \in 1..Len(lastOp.delta) : lastOp.delta[i].Attrs = <<>>)
       => \A uid \in KnownUids : C16_StatsUnchanged(uid)

(***************************************************************************)
(* C18: after clearAll, and so after onInstanceChanged and the manual      *)
(* clear, the three maps of the enemy cache (name, hp, maxHp) are empty.   *)
(***************************************************************************)
C18_EnemyCacheCleared ==
    lastOp.op \in {"clearAll", "instanceChanged"} => enemyCache = EmptyEnemyCache

(***************************************************************************)
(* C19: getUser(uid) leaves uid live and out of the graveyard; for a live  *)
(* uid it changes nothing, so a second call finds the record of the first  *)
(* with the same totals; for a uid in the graveyard it moves that very     *)
(* record back to the live registry; for an unknown uid it adds exactly    *)
(* one record, with zero totals; no other record is touched.               *)
(***************************************************************************)
C19_OthersUntouched(uid) ==
    /\ DOMAIN users = (DOMAIN pre.users) \cup {uid}
    /\ \A other \in (DOMAIN users) \ {uid} : users[other] = pre.users[other]
    /\ DOMAIN userGraveyard = (DOMAIN pre.userGraveyard) \ {uid}
    /\ \A other \in DOMAIN userGraveyard : userGraveyard[other] = pre.userGraveyard[other]

C19_Fresh(u) ==
    /\ u.damageStats = StatisticData("damage")
    /\ u.healingStats = StatisticData("healing")
    /\ u.takenDamage = 0 /\ u.deadCount = 0
    /\ u.skillUsage = EmptyMap

C19_GetUserStep(uid) ==
    /\ C19_OthersUntouched(uid)
    /\ IF Has(pre.users, uid) THEN users[uid] = pre.users[uid]
       ELSE IF Has(pre.userGraveyard, uid) THEN users[uid] = pre.userGraveyard[uid]
       ELSE C19_Fresh(users[uid])
    /\ getUser(Store, uid, now) = Store

C19_GetUserIdempotent == lastOp.op = "getUser" => C19_GetUserStep(lastOp.arg)

\* a user with damage on record came back from the graveyard
C19_Witness ==
    /\ lastOp.op = "getUser"
    /\ Has(pre.userGraveyard, lastOp.arg)
    /\ ~Has(pre.users, lastOp.arg)
    /\ users[lastOp.arg].damageStats.stats.total > 0

(***************************************************************************)
(* C20: cleanUpInactiveUsers moves to the graveyard exactly the live users *)
(* last updated more than 60 seconds ago, each record as it was, and       *)
(* deletes nothing; getAllUsersData returns the same users with the same   *)
(* summaries as before; and a finalized session's snapshot holds the       *)
(* graveyarded users above 5000 like the live ones.                        *)
(***************************************************************************)
C20_Old == {uid \in DOMAIN pre.users : now - pre.users[uid].lastUpdateTime > 60000}

C20_CleanUpStep ==
    /\ DOMAIN users = (DOMAIN pre.users) \ C20_Old
    /\ \A uid \in DOMAIN users : users[uid] = pre.users[uid]
    /\ DOMAIN userGraveyard = (DOMAIN pre.userGraveyard) \cup C20_Old
    /\ \A uid \in C20_Old : userGraveyard[uid] = pre.users[uid]
    /\ \A uid \in (DOMAIN pre.userGraveyard) \ C20_Old :
          userGraveyard[uid] = pre.userGraveyard[uid]
    /\ getAllUsersData(users, userGraveyard) = getAllUsersData(pre.users, pre.userGraveyard)

C20_InactiveKept ==
    /\ lastOp.op = "cleanUp" => C20_CleanUpStep
    /\ (C10_Finalized /\ Len(persisted) > Len(pre.persisted)) =>
          persisted[Len(persisted)].players = Qualifying(pre.users, pre.userGraveyard)

\* a session was finalized whose snapshot holds a user of the graveyard
C20_Witness ==
    /\ C10_Finalized
    /\ Len(persisted) > Len(pre.persisted)
    /\ \E uid \in DOMAIN pre.userGraveyard : uid \in persisted[Len(persisted)].players

(***************************************************************************)
(* C21: whichever way a session ends (instance change, shutdown event,     *)
(* GET /clear), when a user above 5000 sits in the graveyard the session   *)
(* is handed to Sessions.addSession with every user above 5000, live or    *)
(* graveyarded, in its players and counted in its partySize.               *)
(***************************************************************************)
C21_Case ==
    /\ lastOp.op \in {"instanceChanged", "shutdown", "getClear"}
    /\ pre.currentSession # NoSession
    /\ \E uid \in DOMAIN pre.userGraveyard : uid \in Qualifying(pre.users, pre.userGraveyard)

C21_GraveyardInSnapshot ==
    C21_Case =>
      /\ Len(persisted) = Len(pre.persisted) + 1
      /\ persisted[Len(persisted)].players = Qualifying(pre.users, pre.userGraveyard)
      /\ persisted[Len(persisted)].partySize =
           Cardinality(Qualifying(pre.users, pre.userGraveyard))


(***************************************************************************)
(* The auto-save interval, resets and combat-log calls, with file          *)
(* operations that may fail                                                *)
(***************************************************************************)
NextAutoSave ==
    \/ AddLog(1)
    \/ LogLockAcquired
    \/ LogDirChecked({TRUE})
    \/ LogAppended({TRUE})
    \/ Tick({5000})
    \/ AutoSaveTick(BOOLEAN)
    \/ ClearAll(BOOLEAN)
SpecAutoSave == InitSession /\ [][NextAutoSave]_vars

\* concurrent combat-log calls, from the combat path and from outside it
NextLog ==
    \/ SyncNearDeltaInfo(SessionMessages, MaxSteps)
    \/ AddLog(MaxLogs)
    \/ LogLockAcquired
    \/ LogDirChecked(BOOLEAN)
    \/ LogAppended(BOOLEAN)
SpecLog == InitSession /\ [][NextLog]_vars

\* C22: a failed persistence write is caught and logged: no promise rejected
\* by it is left without a handler by clearAll, the auto-save tick or addLog,
\* and clearAll empties the registries whatever the outcome of its write
C22_WriteFailuresContained ==
    /\ io.unhandled = {}
    /\ lastOp.op = "clearAll" => users = EmptyMap /\ userGraveyard = EmptyMap

(***************************************************************************)
(* The debounced flush of the identity cache                               *)
(***************************************************************************)
\* P1's name changes
NameMessages ==
    {<<AttrsDelta(P1, <<Attr(AttrType_AttrName, name)>>)>> : name \in {"Ann", "Bob"}}

\* P1's fight score, profession and max-HP change
SetterMessages ==
    {<<AttrsDelta(P1, <<Attr(AttrType_AttrFightPoint, fp)>>)>> : fp \in {100, 200}}
    \cup {<<AttrsDelta(P1, <<Attr(AttrType_AttrProfessionId, id)>>)>> : id \in {1, 2, 999}}
    \cup {<<AttrsDelta(P1, <<Attr(AttrType_AttrMaxHp, 1000)>>)>>}

NextFlush ==
    \/ SyncNearDeltaInfo(NameMessages, MaxSteps)
    \/ SyncNearDeltaInfo(SetterMessages, MaxSteps)
    \/ CacheTimerFires
    \/ CacheWriteSettles({TRUE})
    \/ ForceUserCacheSave(MaxWrites)
SpecFlush == InitSession /\ [][NextFlush]_vars

\* name changes only, with every armed timeout firing and every write settling
NextSave ==
    \/ SyncNearDeltaInfo(NameMessages, MaxCasts)
    \/ CacheTimerFires
    \/ CacheWriteSettles({TRUE})
    \/ ForceUserCacheSave(MaxWrites)
FairFlush ==
    /\ InitSession
    /\ [][NextSave]_vars
    /\ WF_vars(CacheTimerFires)
    /\ WF_vars(CacheWriteSettles({TRUE}))

\* C23: once changes stop and writes succeed, the cache file on disk ends up
\* holding every cached name, profession, fight score and max-HP, whatever
\* the interleaving of changes, timer and pending writes
C23_EventuallyFlushed == <>[](io.usersJson.data = userCache)

\* C24: at most one addLog call is between acquiring and releasing the log
\* lock (directory check, append) at any time
C24_MutualExclusion == io.logCalls.dir + io.logCalls.append <= 1

\* one call holds the lock in its directory check while another waits for it
C24_Witness ==
    /\ io.logCalls.dir = 1
    /\ io.logCalls.acquire >= 1
    /\ io.logLock

\* C25: an auto-save tick writes the user data only if a combat-log line was
\* recorded since the previous tick (since start-up for the first tick)
C25_TickNeedsLogActivity ==
    (lastOp.op = "autoSave" /\ lastOp.arg.wrote) => lastOp.arg.logged

\* the setter a one-attribute message for P1 reaches, and the value it passes
SetterAttr == lastOp'.delta[1].Attrs[1]
SetterField ==
    CASE SetterAttr.Id = AttrType_AttrName -> "name"
      [] SetterAttr.Id = AttrType_AttrProfessionId -> "profession"
      [] SetterAttr.Id = AttrType_AttrFightPoint -> "fightPoint"
      [] OTHER -> ""
SetterIsEmptyProfession ==
    SetterField = "profession" /\ getProfessionNameFromId(SetterAttr.value) = ""
SetterStep == lastOp'.op = "delta" /\ steps' = steps + 1 /\ SetterField # ""
\* the store once the setter has looked the user up
SetterLookedUp == getUser(Store, 1, now)
SetterSame ==
    CASE SetterField = "name" -> SetterLookedUp.users[1].name = SetterAttr.value
      [] SetterField = "profession" ->
           SetterLookedUp.users[1].profession = getProfessionNameFromId(SetterAttr.value)
      [] OTHER -> SetterLookedUp.users[1].fightPoint = SetterAttr.value
SetterWrote ==
    /\ Has(users', 1)
    /\ Has(userCache', 1)
    /\ CASE SetterField = "name" ->
              users'[1].name = SetterAttr.value /\ userCache'[1].name = SetterAttr.value
         [] SetterField = "profession" ->
              /\ users'[1].profession = getProfessionNameFromId(SetterAttr.value)
              /\ userCache'[1].profession = getProfessionNameFromId(SetterAttr.value)
         [] OTHER ->
              users'[1].fightPoint = SetterAttr.value
              /\ userCache'[1].fightPoint = SetterAttr.value
    /\ io'.pendingSave
    /\ io'.saveThrottleTimer = "armed"
SetterAfter == [users |-> users', userGraveyard |-> userGraveyard', userCache |-> userCache',
                hpCache |-> hpCache', enemyCache |-> enemyCache', io |-> io']

\* C26 as stated: a setter called with the user's current value changes
\* nothing beyond looking the user up, and called with a different value it
\* updates the user, writes the cache entry and schedules a flush
C26_SetterFrame ==
    [][SetterStep =>
         IF SetterSame THEN SetterAfter = SetterLookedUp ELSE SetterWrote]_vars

\* C26, amended: as above, except that setProfession called with an empty
\* profession name changes nothing at all
C26_SetterFrameNonEmpty ==
    [][SetterStep =>
         IF SetterIsEmptyProfession THEN SetterAfter = Store
         ELSE IF SetterSame THEN SetterAfter = SetterLookedUp
         ELSE SetterWrote]_vars

\* P1 has a profession and a flushed cache when an unknown profession id
\* arrives
C26_Witness ==
    /\ lastOp.op = "delta"
    /\ lastOp.delta[1].Attrs[1].Id = AttrType_AttrProfessionId
    /\ getProfessionNameFromId(lastOp.delta[1].Attrs[1].value) = ""
    /\ Has(users, 1)
    /\ users[1].profession = "Frost Mage"
    /\ io.usersJson.exists

(***************************************************************************)
(* The local player: to-me deltas and container dirty data                 *)
(***************************************************************************)
LE32(n) == <<n % 256, (n \div 256) % 256, (n \div 65536) % 256, (n \div 16777216) % 256>>
\* a field index or a value followed by its int32
Field(n) == LE32(n) \o <<0, 0, 0, 0>>
\* the stream identifier 0xfffffffe with its int32, alone or followed by the
\* second identifier word 0xfffffffd with its int32
BlobHeader(layout) ==
    IF layout = 8 THEN <<254, 255, 255, 255, 0, 0, 0, 0>>
    ELSE <<254, 255, 255, 255, 0, 0, 0, 0, 253, 255, 255, 255, 0, 0, 0, 0>>
BlobLayouts == {8, 16}
\* a dirty-data blob: identifier, block index, identifier, field index, value
DirtyBlob(layout, block, field, value) ==
    BlobHeader(layout) \o Field(block) \o BlobHeader(layout) \o Field(field) \o value

NameAnn == Field(3) \o <<65, 110, 110>> \o <<0, 0, 0, 0>>

DirtyBlobs ==
    {DirtyBlob(layout, 2, 5, NameAnn) : layout \in BlobLayouts}
    \cup {DirtyBlob(layout, 2, 35, Field(100)) : layout \in BlobLayouts}
    \cup {DirtyBlob(layout, 16, 1, LE32(50)) : layout \in BlobLayouts}
    \cup {DirtyBlob(layout, 16, 2, LE32(1000)) : layout \in BlobLayouts}
    \cup {DirtyBlob(layout, 61, 1, Field(2)) : layout \in BlobLayouts}
    \cup {<<>>, Field(2) \o Field(35) \o Field(100)}

ToMeMessages ==
    {[Uuid |-> uuid, BaseDelta |-> base] :
        uuid \in {None, 0, P1, P2},
        base \in {<<>>, <<AttrsDelta(P1, <<Attr(AttrType_AttrFightPoint, 200)>>)>>}}

NextDirty ==
    \/ SyncToMeDeltaInfo(ToMeMessages, MaxCasts)
    \/ SyncContainerDirtyData(DirtyBlobs, MaxCasts)
SpecDirty == InitSession /\ [][NextDirty]_vars

\* the blob carries value for the field of the block, in either layout
Carries(buf, block, field, value) ==
    \E layout \in BlobLayouts : buf = DirtyBlob(layout, block, field, value)

\* C27: a dirty-data notification changes nothing while no non-zero local
\* uuid is established; afterwards the name, fight score, hp, max hp and
\* profession it carries are applied to the user uuid >> 16
C27_DirtyDataApplied ==
    lastOp.op = "dirtyData" =>
      IF lastOp.arg = 0
      THEN /\ users = pre.users /\ userGraveyard = pre.userGraveyard
           /\ userCache = pre.userCache /\ hpCache = pre.hpCache
      ELSE LET uid == UuidToUid(lastOp.arg)
           IN  /\ Carries(lastOp.delta, 2, 5, NameAnn) =>
                    Has(users, uid) /\ users[uid].name = "Ann"
               /\ Carries(lastOp.delta, 2, 35, Field(100)) =>
                    Has(users, uid) /\ users[uid].fightPoint = 100
               /\ Carries(lastOp.delta, 16, 1, LE32(50)) =>
                    Has(hpCache, uid) /\ hpCache[uid] = 50
               /\ Carries(lastOp.delta, 16, 2, LE32(1000)) =>
                    Has(userCache, uid) /\ userCache[uid].maxHp = 1000
               /\ Carries(lastOp.delta, 61, 1, Field(2)) =>
                    Has(users, uid) /\ users[uid].profession = "Frost Mage"

(***************************************************************************)
(* Near-entities syncs                                                     *)
(***************************************************************************)
MaxAppear == 4
MaxDisappear == 12

Entity(uuid, type, attrs) == [Uuid |-> uuid, EntType |-> type, Attrs |-> attrs]
Repeat(e, n) == [i \in 1..n |-> e]

\* a monsters appear and d monsters disappear, around the wipe threshold
WipeMessages ==
    {[Appear |-> Repeat(Entity(M7, "", <<>>), a),
      Disappear |-> Repeat(Entity(M8, "", <<>>), d)] :
        a \in 0..MaxAppear, d \in 8..MaxDisappear}

\* one entity appears with its hp, under every tag and entity type
RoutingMessages ==
    {[Appear |-> <<Entity(uuid, type, <<Attr(AttrType_AttrHp, 50)>>)>>,
      Disappear |-> <<>>] :
        uuid \in {P1, M7, X9}, type \in {"", "EntMonster", "EntChar", "EntNpc"}}

NextEntities ==
    \/ SyncNearEntities(WipeMessages, MaxSteps)
    \/ SyncNearEntities(RoutingMessages, MaxSteps)
SpecEntities == InitSession /\ [][NextEntities]_vars

NearAppeared == Len(lastOp.delta.Appear)
NearDisappeared == Len(lastOp.delta.Disappear)

\* C28 as stated: a wipe is reported exactly when d >= 10 and
\* 5*d >= 4*(a + d)
C28_WipeAtEightyPercent ==
    lastOp.op = "nearEntities" =>
      (lastOp.arg.onAoiWipe <=>
          NearDisappeared >= 10 /\ 5 * NearDisappeared >= 4 * (NearAppeared + NearDisappeared))

\* C28, amended: a wipe is reported exactly when d >= 10 and d is at least
\* 80% of (a + d) rounded down to an integer
C28_WipeAtFlooredEightyPercent ==
    lastOp.op = "nearEntities" =>
      (lastOp.arg.onAoiWipe <=>
          /\ NearDisappeared >= 10
          /\ NearDisappeared >= (4 * (NearAppeared + NearDisappeared)) \div 5)

\* 3 entities appear and 10 disappear: 10 < 10.4, and the wipe is reported
C28_Witness ==
    /\ lastOp.op = "nearEntities"
    /\ NearAppeared = 3
    /\ NearDisappeared = 10
    /\ lastOp.arg.onAoiWipe

\* the single entity of a routing message
NearEntity == lastOp.delta.Appear[1]
NearRouted ==
    /\ lastOp.op = "nearEntities"
    /\ NearAppeared = 1
    /\ NearEntity.Attrs # <<>>
\* the processing the entity-type field, or failing it the bit-tag, calls for
NearExpected ==
    IF NearEntity.EntType = "EntMonster" THEN "enemy"
    ELSE IF NearEntity.EntType = "EntChar" THEN "player"
    ELSE IF UuidTag(NearEntity.Uuid) = 64 THEN "enemy"
    ELSE IF UuidTag(NearEntity.Uuid) = 640 THEN "player"
    ELSE "none"

\* C29: for an appeared entity with attributes, an entity type of monster or
\* character selects enemy or player attribute processing whatever the uuid
\* bit-tag; the bit-tag decides when the type is absent or unrecognized; an
\* entity that is neither gets no processing
C29_TypeFieldDecides ==
    NearRouted =>
      LET uid == UuidToUid(NearEntity.Uuid)
      IN  CASE NearExpected = "enemy" ->
                 /\ Has(enemyCache.hp, uid) /\ enemyCache.hp[uid] = 50
                 /\ users = pre.users /\ hpCache = pre.hpCache
            [] NearExpected = "player" ->
                 /\ Has(users, uid) /\ Has(hpCache, uid) /\ hpCache[uid] = 50
                 /\ enemyCache = pre.enemyCache
            [] OTHER ->
                 /\ users = pre.users /\ hpCache = pre.hpCache
                 /\ enemyCache = pre.enemyCache /\ userCache = pre.userCache

\* an entity tagged as a player but typed as a monster went to the enemy cache
C29_Witness ==
    /\ NearRouted
    /\ NearEntity.Uuid = P1
    /\ NearEntity.EntType = "EntMonster"
    /\ Has(enemyCache.hp, 1)
    /\ ~Has(users, 1)

(***************************************************************************)
(* Lifetime totals                                                         *)
(***************************************************************************)
\* P1 deals damage, heals P2 and takes damage, possibly dying
TotalsMessages ==
    {<<DamageDelta(M7, Damage(1241, P1, 10, lucky, "Normal", FALSE))>> : lucky \in BOOLEAN}
    \cup {<<DamageDelta(P2, Damage(1241, P1, 10, FALSE, "Heal", FALSE))>>}
    \cup {<<DamageDelta(P1, Damage(1241, M7, 10, FALSE, "Normal", isDead))>> :
            isDead \in BOOLEAN}

NextTotals ==
    \/ SyncNearDeltaInfo(TotalsMessages, MaxSteps)
    \/ Tick({60000, 60001})
    \/ CleanUpInactiveUsers
    \/ GetUser
    \/ ClearAll({TRUE})
SpecTotals == InitSession /\ [][NextTotals]_vars

BucketsLeq(a, b) ==
    /\ a.normal <= b.normal /\ a.critical <= b.critical /\ a.lucky <= b.lucky
    /\ a.crit_lucky <= b.crit_lucky /\ a.total <= b.total
TotalsLeq(u, v) ==
    /\ BucketsLeq(u.damageStats.stats, v.damageStats.stats)
    /\ BucketsLeq(u.damageStats.count, v.damageStats.count)
    /\ BucketsLeq(u.healingStats.stats, v.healingStats.stats)
    /\ BucketsLeq(u.healingStats.count, v.healingStats.count)
    /\ u.takenDamage <= v.takenDamage
    /\ u.deadCount <= v.deadCount

\* C30: between session resets every user, live or in the graveyard, stays
\* known and none of its damage, healing, taken-damage, death and hit totals
\* decreases
C30_TotalsNeverDecrease ==
    [][lastOp'.op \notin {"clearAll", "instanceChanged", "getClear"} =>
         \A uid \in AllUserIds(users, userGraveyard) :
           /\ uid \in AllUserIds(users', userGraveyard')
           /\ TotalsLeq(AnyUser(users, userGraveyard, uid),
                        AnyUser(users', userGraveyard', uid))]_vars

\* P1 took damage, went to the graveyard, and was revived by a second hit
\* that killed it
C30_Witness ==
    /\ lastOp.op = "delta"
    /\ Has(pre.userGraveyard, 1)
    /\ Has(users, 1)
    /\ users[1].takenDamage = 20
    /\ users[1].deadCount = 1

(***************************************************************************)
(* C31: a given session id is handed to Sessions.addSession at most once   *)
(* over the whole run, under any interleaving of instance changes, manual  *)
(* clears through the API (suspended at their save step or not), clearAll  *)
(* with persistSession, and shutdown hooks.                                *)
(***************************************************************************)
\* every way a session ends, with GET /clear suspended at its await or not
NextOnce ==
    \/ SyncNearDeltaInfo(SessionMessages, MaxSteps)
    \/ OnInstanceChanged({TRUE})
    \/ GetClear({TRUE})
    \/ GetClearAwaits
    \/ GetClearResumes({TRUE})
    \/ ClearAll({TRUE})
    \/ ShutdownHook({"SIGINT", "beforeExit"})
SpecOnce == InitStarted /\ [][NextOnce]_vars

C31_SessionIdHandedOnce ==
    \A i, j \in 1..Len(persisted) : persisted[i].id = persisted[j].id => i = j

(***************************************************************************)
(* C33: no uid is in the live registry and in the graveyard at the same    *)
(* time, after any sequence of getUser, attribute and statistic updates,   *)
(* cleanUpInactiveUsers, clearAll and onInstanceChanged.                   *)
(***************************************************************************)
\* damage, heals and taken damage of P1 and P2, a fight point and a
\* profession attribute
RegistryMessages ==
    TotalsMessages
    \cup {<<AttrsDelta(P1, <<Attr(AttrType_AttrFightPoint, 100)>>)>>,
          <<AttrsDelta(P2, <<Attr(AttrType_AttrProfessionId, 2)>>)>>}

NextRegistry ==
    \/ SyncNearDeltaInfo(RegistryMessages, MaxSteps)
    \/ Tick({60000, 60001})
    \/ CleanUpInactiveUsers
    \/ GetUser
    \/ ClearAll({TRUE})
    \/ OnInstanceChanged({TRUE})
SpecRegistry == InitSession /\ [][NextRegistry]_vars

C33_LiveOrGraveyard == (DOMAIN users) \cap (DOMAIN userGraveyard) = {}

\* a user has just come back from the graveyard while another one stays there
C33_Witness ==
    /\ lastOp.op \in {"getUser", "delta"}
    /\ \E uid \in DOMAIN pre.userGraveyard :
          /\ Has(users, uid)
          /\ ~Has(userGraveyard, uid)
          /\ users[uid].lastUpdateTime >= pre.userGraveyard[uid].lastUpdateTime
    /\ userGraveyard # EmptyMap

(***************************************************************************)
(* C34: while IS_PAUSED is set, a combat delta (damage or heal events)     *)
(* creates no user record and moves no user between the graveyard and the  *)
(* live registry: the live uids and the graveyard uids are the same before *)
(* and after.                                                              *)
(***************************************************************************)
C34_PausedKeepsRegistry ==
    (IS_PAUSED /\ IsDamageEvent) =>
      /\ DOMAIN users = DOMAIN pre.users
      /\ DOMAIN userGraveyard = DOMAIN pre.userGraveyard

(***************************************************************************)
(* C35: a damage event whose target uuid carries neither the player tag    *)
(* (640) nor the monster tag (64) credits damage to no user and removes    *)
(* nothing from the enemy cache.                                           *)
(***************************************************************************)
C35_Case ==
    /\ IsDamageEvent
    /\ LastDamage.Type # "Heal"
    /\ ~isUuidPlayer(LastTarget)
    /\ ~isUuidMonster(LastTarget)

C35_UntaggedTargetIgnored ==
    C35_Case =>
      /\ \A uid \in KnownUids : DealtUnchanged(uid)
      /\ enemyCache = pre.enemyCache

(***************************************************************************)
(* C36: for every user, the damage aggregate's total value and hit count   *)
(* are the sums over the user's damage-type per-skill entries, and the     *)
(* healing aggregate's are the sums over the healing-type entries.         *)
(***************************************************************************)
\* casts of P1 with a raw skill id below and above HEAL_OFFSET, as damage
\* and as heals
AggregateMessages ==
    {<<DamageDelta(M7, Damage(skillId, P1, 10, lucky, "Normal", FALSE))>> :
        skillId \in {1241, HEAL_OFFSET + 1241}, lucky \in BOOLEAN}
    \cup {<<DamageDelta(P2, Damage(skillId, P1, 7, FALSE, "Heal", FALSE))>> :
        skillId \in {1241, 20301}}

NextAggregates ==
    \/ SyncNearDeltaInfo(AggregateMessages, MaxSteps)
    \/ ClearAll({TRUE})
SpecAggregates == InitSession /\ [][NextAggregates]_vars

\* the sum of field.total over the entries of the given keys
RECURSIVE SumOfEntries(_, _, _)
SumOfEntries(u, keys, field) ==
    IF keys = {} THEN 0
    ELSE LET k == CHOOSE x \in keys : TRUE
         IN  u.skillUsage[k][field].total + SumOfEntries(u, keys \ {k}, field)

EntriesOfType(u, type) == {k \in DOMAIN u.skillUsage : u.skillUsage[k].type = type}

AggregateMatches(u, stat, type) ==
    /\ stat.stats.total = SumOfEntries(u, EntriesOfType(u, type), "stats")
    /\ stat.count.total = SumOfEntries(u, EntriesOfType(u, type), "count")

C36_AggregatesMatchSkills ==
    \A uid \in AllUserIds(users, userGraveyard) :
       /\ AggregateMatches(AnyUser(users, userGraveyard, uid),
                           AnyUser(users, userGraveyard, uid).damageStats, "damage")
       /\ AggregateMatches(AnyUser(users, userGraveyard, uid),
                           AnyUser(users, userGraveyard, uid).healingStats, "healing")


(***************************************************************************)
(* Primary profession changes                                              *)
(***************************************************************************)
\* profession ids of P1, one of them unknown to the table, and casts of P1
PrimaryMessages ==
    {<<AttrsDelta(P1, <<Attr(AttrType_AttrProfessionId, id)>>)>> : id \in {1, 2, 99}}
    \cup {<<DamageDelta(M7, Damage(skillId, P1, 10, FALSE, "Normal", FALSE))>> :
            skillId \in {1241, 120901}}

NextPrimary ==
    \/ InitManager(ProfessionFiles)
    \/ SyncNearDeltaInfo(PrimaryMessages, MaxCasts)
    \/ Tick({60001})
    \/ CleanUpInactiveUsers
SpecPrimary == InitSession /\ [][NextPrimary]_vars

\* the most recent operation handled one profession attribute of a player
\* that had a record, live or in the graveyard
C37_Case ==
    /\ lastOp.op = "delta"
    /\ Len(lastOp.delta) = 1
    /\ isUuidPlayer(lastOp.delta[1].Uuid)
    /\ Len(lastOp.delta[1].Attrs) = 1
    /\ lastOp.delta[1].Attrs[1].Id = AttrType_AttrProfessionId
    /\ UuidToUid(lastOp.delta[1].Uuid) \in (DOMAIN pre.users) \cup (DOMAIN pre.userGraveyard)

C37_Uid == UuidToUid(lastOp.delta[1].Uuid)
C37_Name == getProfessionNameFromId(lastOp.delta[1].Attrs[1].value)

C37_Changed(b, a, name) ==
    IF name # "" /\ name # b.profession
    THEN /\ a.profession = name
         /\ a.subProfession = ""
         /\ a.subProfessionUsage = EmptyMap
    ELSE /\ a.profession = b.profession
         /\ a.subProfession = b.subProfession
         /\ a.subProfessionUsage = b.subProfessionUsage

\* the first candidate observed by a user with no sub-profession and no counters
C37_FirstCandidateWins(b, a, candidate) ==
    (b.subProfession = "" /\ b.subProfessionUsage = EmptyMap)
        => a.subProfession = candidate /\ a.subProfessionUsage = Put(EmptyMap, candidate, 1)

\* C37: a change of the primary profession to a different, non-empty name
\* clears the sub-profession and every usage counter, so that the next
\* candidate observed wins at once; the current name or an empty name (an
\* unknown profession id) leaves profession, sub-profession and counters as
\* they were.
C37_ProfessionChangeResets ==
    /\ C37_Case => C37_Changed(Before(C37_Uid), After(C37_Uid), C37_Name)
    /\ C13_Case => C37_FirstCandidateWins(Before(LastAttackerUid), After(LastAttackerUid),
                                          C13_Candidate)

\* a user with a sub-profession and counters has just changed profession
C37_Witness ==
    /\ C37_Case
    /\ C37_Name \notin {"", Before(C37_Uid).profession}
    /\ Before(C37_Uid).subProfession # ""
    /\ Before(C37_Uid).subProfessionUsage # EmptyMap
    /\ After(C37_Uid).profession = C37_Name


(***************************************************************************)
(* The parse loop, iteration by iteration                                  *)
(***************************************************************************)
NextParse == FeedChunk \/ ParseIteration
SpecParse == Init /\ [][NextParse]_vars
\* a loop that has been entered keeps running: the call is synchronous
FairParse == SpecParse /\ WF_vars(ParseIteration)

C38_ShrinksOrLeaves ==
    ParseIteration => (Len(internalBuffer') < Len(internalBuffer) \/ parsing' < parsing)

\* C38: every iteration of the parse loop strictly shrinks the internal
\* buffer or leaves the loop, a frame that re-feeds its nested stream
\* included, and every processDataChunk call returns: a loop that is running
\* is eventually left, whatever the buffer holds.
C38_ParseTerminates ==
    /\ [][C38_ShrinksOrLeaves]_vars
    /\ (parsing > 0) ~> (parsing = 0)

\* a second iteration has shrunk the buffer and a third one follows
C38_Witness ==
    /\ last.op = "iteration"
    /\ parsing > 0
    /\ Len(internalBuffer) >= 4
    /\ Len(internalBuffer) + 4 <= Len(last.bufBefore)
    /\ Len(internalBuffer) + 8 <= Len(fed)


(***************************************************************************)
(* ModuleOptimizer.  A module is [uuid, configId, parts], parts being a    *)
(* sequence of [name, value]; ModuleManager hands out the modules of a     *)
(* user from a Map keyed by uuid, so the modules of one list differ in     *)
(* their uuid and equal records are the same object.  The configuration is *)
(* the one the route POST /modules/optimize builds, with the priority      *)
(* attributes and desired levels of the request.                           *)
(***************************************************************************)
attrThresholds == <<1, 4, 8, 12, 16, 20>>
basicAttrPowerMap == <<7, 14, 29, 44, 167, 254>>
specialAttrPowerMap == <<14, 29, 59, 89, 298, 448>>
levelWeights == <<1, 4, 8, 12, 16, 20>>

\* _buildTotalAttrPowerMap, and totalAttrPowerMap[total] || 0
totalAttrPowerMap(total) ==
    IF total < 1 \/ total > 120 THEN 0
    ELSE IF total <= 18 THEN 5 + (total - 1) * 6
    ELSE 104 + (total - 18) * 6

\* _buildAttrNameTypeMap, for the attribute names the model uses
getAttrTypeByName(attrName) ==
    IF attrName \in {"Extreme Damage Stack", "Extreme Team Crit"} THEN "special" ELSE "basic"

\* moduleCategories of ModuleManager, copied by the route into moduleCategoryMap
moduleCategoryMap(configId) ==
    CASE configId \in {5500101, 5500102, 5500103} -> "ATTACK"
      [] configId \in {5500301, 5500302, 5500303} -> "GUARDIAN"
      [] configId \in {5500201, 5500202, 5500203} -> "SUPPORT"
      [] OTHER -> "UNKNOWN"

getModuleCategory(module) == moduleCategoryMap(module.configId)

RECURSIVE LevelLoop(_, _)
LevelLoop(value, i) ==
    IF i > Len(attrThresholds) THEN i - 1
    ELSE IF value >= attrThresholds[i] THEN LevelLoop(value, i + 1)
    ELSE i - 1

toLevel(value) == LevelLoop(value, 1)

RECURSIVE PartsOf(_)
PartsOf(modules) ==
    IF modules = <<>> THEN <<>> ELSE Head(modules).parts \o PartsOf(Tail(modules))

RECURSIVE SumOfParts(_, _)
SumOfParts(parts, name) ==
    IF parts = <<>> THEN 0
    ELSE (IF Head(parts).name = name THEN Head(parts).value ELSE 0) + SumOfParts(Tail(parts), name)

\* the breakdown Map: attribute name -> summed value
breakdownOfParts(parts) ==
    [name \in {parts[i].name : i \in 1..Len(parts)} |-> SumOfParts(parts, name)]

breakdownOf(modules) == breakdownOfParts(PartsOf(modules))

attrPower(attrName, level) ==
    IF level = 0 THEN 0
    ELSE IF getAttrTypeByName(attrName) = "special" THEN specialAttrPowerMap[level]
    ELSE basicAttrPowerMap[level]

RECURSIVE thresholdPower(_, _)
thresholdPower(breakdown, names) ==
    IF names = {} THEN 0
    ELSE LET n == CHOOSE x \in names : TRUE
         IN  attrPower(n, toLevel(breakdown[n])) + thresholdPower(breakdown, names \ {n})

RECURSIVE totalOf(_, _)
totalOf(breakdown, names) ==
    IF names = {} THEN 0
    ELSE LET n == CHOOSE x \in names : TRUE
         IN  breakdown[n] + totalOf(breakdown, names \ {n})

totalAttrValueOf(breakdown) == totalOf(breakdown, DOMAIN breakdown)

powerOf(breakdown) ==
    thresholdPower(breakdown, DOMAIN breakdown) + totalAttrPowerMap(totalAttrValueOf(breakdown))

calculateCombatPower(modules) == powerOf(breakdownOf(modules))

\* the closeness of one desired level
closenessOf(level, desired) ==
    IF level >= desired THEN 6
    ELSE IF 6 - (desired - level) > 0 THEN 6 - (desired - level) ELSE 0

RECURSIVE closenessLoop(_, _, _)
closenessLoop(breakdown, desiredLevels, names) ==
    IF names = {} THEN 0
    ELSE LET n == CHOOSE x \in names : TRUE
         IN  closenessOf(toLevel(IF n \in DOMAIN breakdown THEN breakdown[n] ELSE 0),
                         desiredLevels[n])
             + closenessLoop(breakdown, desiredLevels, names \ {n})

computeCloseness(breakdown, desiredLevels) ==
    closenessLoop(breakdown, desiredLevels, DOMAIN desiredLevels)

\* the contribution of one attribute to tier 1, for a priority attribute
\* with a desired level
tier1Of(lvl, targetLvl) ==
    IF lvl >= 6 THEN 2000
    ELSE IF lvl >= targetLvl
    THEN (IF lvl - targetLvl <= 1 THEN 2000 ELSE 2000 - (lvl - targetLvl - 1) * 50)
    ELSE (6 - (IF targetLvl - lvl < 6 THEN targetLvl - lvl ELSE 6)) * 20

weightOf(lvl) == IF lvl = 0 THEN 0 ELSE levelWeights[lvl]

\* tier: 1 priority with a desired level, 2 priority without, 3 the others
tierOfAttr(attr, cfg) ==
    IF attr \in cfg.priorityAttrs /\ attr \in DOMAIN cfg.desiredLevels THEN 1
    ELSE IF attr \in cfg.priorityAttrs THEN 2
    ELSE 3

tierValue(attr, lvl, tier, cfg) ==
    IF tierOfAttr(attr, cfg) # tier THEN 0
    ELSE IF tier = 1 THEN tier1Of(lvl, cfg.desiredLevels[attr])
    ELSE weightOf(lvl)

RECURSIVE tierSum(_, _, _, _)
tierSum(breakdown, names, tier, cfg) ==
    IF names = {} THEN 0
    ELSE LET n == CHOOSE x \in names : TRUE
         IN  tierValue(n, toLevel(breakdown[n]), tier, cfg)
             + tierSum(breakdown, names \ {n}, tier, cfg)

(***************************************************************************)
(* calculatePriorityAwareScore: tier1 * 1e9 + tier2 * 1e6 + tier3 * 1e4 +  *)
(* closeness * 1e3 + power, kept as the pair <<tier1, the rest>>.  For the *)
(* modules of the model the rest stays below 1e9 and tier1 is a whole      *)
(* number, so that comparing the sums is comparing the pairs in            *)
(* lexicographic order.                                                    *)
(***************************************************************************)
scoreOf(breakdown, cfg) ==
    <<tierSum(breakdown, DOMAIN breakdown, 1, cfg),
      tierSum(breakdown, DOMAIN breakdown, 2, cfg) * 1000000
        + tierSum(breakdown, DOMAIN breakdown, 3, cfg) * 10000
        + computeCloseness(breakdown, cfg.desiredLevels) * 1000
        + powerOf(breakdown)>>

calculatePriorityAwareScore(modules, cfg) == scoreOf(breakdownOf(modules), cfg)

\* sc > bestScore
ScoreGt(a, b) == a[1] > b[1] \/ (a[1] = b[1] /\ a[2] > b[2])

RECURSIVE priorityLevelOf(_, _)
priorityLevelOf(breakdown, names) ==
    IF names = {} THEN 0
    ELSE LET n == CHOOSE x \in names : TRUE
             level == toLevel(IF n \in DOMAIN breakdown THEN breakdown[n] ELSE 0)
             others == priorityLevelOf(breakdown, names \ {n})
         IN  IF level > others THEN level ELSE others

\* the solution object built from evaluate(modules)
solutionOf(modules, breakdown, cfg) ==
    [modules |-> modules,
     score |-> powerOf(breakdown),
     priorityLevel |-> priorityLevelOf(breakdown, cfg.priorityAttrs),
     totalAttrValue |-> totalAttrValueOf(breakdown)]

evaluate(modules, cfg) == solutionOf(modules, breakdownOf(modules), cfg)


(***************************************************************************)
(* prefilterModules: per attribute name, in the order the names are first  *)
(* met, the modules carrying it sorted by decreasing value (the sort is    *)
(* stable), the first 30 of them; the candidates are these modules in the  *)
(* order they are first added to the Set.  A module without parts is       *)
(* never a candidate.                                                      *)
(***************************************************************************)
RECURSIVE Distinct(_)
Distinct(s) ==
    IF s = <<>> THEN <<>>
    ELSE LET rest == Distinct(SubSeq(s, 1, Len(s) - 1))
             x == s[Len(s)]
         IN  IF \E i \in 1..Len(rest) : rest[i] = x THEN rest ELSE Append(rest, x)

RECURSIVE attrEntries(_, _)
attrEntries(modules, name) ==
    IF modules = <<>> THEN <<>>
    ELSE LET m == Head(modules)
             own == SelectSeq(m.parts, LAMBDA p : p.name = name)
         IN  [i \in 1..Len(own) |-> [module |-> m, value |-> own[i].value]]
             \o attrEntries(Tail(modules), name)

\* insertion behind the entries of greater or equal value
RECURSIVE insertByValue(_, _)
insertByValue(sorted, e) ==
    IF sorted = <<>> THEN <<e>>
    ELSE IF Head(sorted).value >= e.value THEN <<Head(sorted)>> \o insertByValue(Tail(sorted), e)
    ELSE <<e>> \o sorted

RECURSIVE sortByValue(_)
sortByValue(list) ==
    IF list = <<>> THEN <<>>
    ELSE insertByValue(sortByValue(SubSeq(list, 1, Len(list) - 1)), list[Len(list)])

topOfAttr(modules, name) ==
    [i \in 1..Len(Take(sortByValue(attrEntries(modules, name)), 30)) |->
        Take(sortByValue(attrEntries(modules, name)), 30)[i].module]

RECURSIVE topOfAttrs(_, _)
topOfAttrs(modules, names) ==
    IF names = <<>> THEN <<>>
    ELSE topOfAttr(modules, Head(names)) \o topOfAttrs(modules, Tail(names))

attrNamesInOrder(parts) == Distinct([i \in 1..Len(parts) |-> parts[i].name])

prefilterModules(modules) ==
    Distinct(topOfAttrs(modules, attrNamesInOrder(PartsOf(modules))))

(***************************************************************************)
(* greedyConstructSolution(modules): null (NoSolution) for fewer than 4    *)
(* modules; otherwise the module Math.random draws (first), then up to     *)
(* three times the first module in array order, not yet taken, whose       *)
(* score with the modules taken is the greatest.                           *)
(***************************************************************************)
NoSolution == [modules |-> <<>>, score |-> 0, priorityLevel |-> 0, totalAttrValue |-> 0]

\* a variant that never finds the module in the list
includesNothing(list, m) == FALSE

\* current.includes(m), best.modules.includes(nm)
includes(list, m) == \E i \in 1..Len(list) : list[i] = m

\* the scan "if (score > bestScore)" over the modules from index i on; pick
\* is the index of the best module so far, 0 while bestScore is -Infinity
RECURSIVE greedyScan(_, _, _, _, _)
greedyScan(modules, current, i, pick, cfg) ==
    IF i > Len(modules) THEN pick
    ELSE IF includes(current, modules[i]) THEN greedyScan(modules, current, i + 1, pick, cfg)
    ELSE IF pick = 0 THEN greedyScan(modules, current, i + 1, i, cfg)
    ELSE IF ScoreGt(calculatePriorityAwareScore(Append(current, modules[i]), cfg),
                    calculatePriorityAwareScore(Append(current, modules[pick]), cfg))
    THEN greedyScan(modules, current, i + 1, i, cfg)
    ELSE greedyScan(modules, current, i + 1, pick, cfg)

RECURSIVE greedyGrow(_, _, _, _)
greedyPush(modules, current, pick, k, cfg) ==
    IF pick = 0 THEN current
    ELSE greedyGrow(modules, Append(current, modules[pick]), k + 1, cfg)

greedyGrow(modules, current, k, cfg) ==
    IF k >= 3 THEN current
    ELSE greedyPush(modules, current, greedyScan(modules, current, 1, 0, cfg), k, cfg)

greedyConstructSolution(modules, first, cfg) ==
    IF Len(modules) < 4 THEN NoSolution
    ELSE evaluate(greedyGrow(modules, <<modules[first]>>, 0, cfg), cfg)

(***************************************************************************)
(* localSearchImprove sorts the array it is given, which is the            *)
(* candidates array itself, with a random comparator: from the second      *)
(* attempt on the array is in an arbitrary order, and the first module of  *)
(* greatest score in array order is any module of greatest score.          *)
(***************************************************************************)
\* the modules that score as much as the one the scan picks
greatestPicks(modules, current, pick, cfg) ==
    IF pick = 0 THEN {}
    ELSE {i \in 1..Len(modules) :
            /\ ~includes(current, modules[i])
            /\ ~ScoreGt(calculatePriorityAwareScore(Append(current, modules[pick]), cfg),
                        calculatePriorityAwareScore(Append(current, modules[i]), cfg))}

RECURSIVE greedyGrowShuffled(_, _, _, _)
greedyGrowAmong(modules, current, picks, k, cfg) ==
    IF picks = {} THEN {current}
    ELSE UNION {greedyGrowShuffled(modules, Append(current, modules[i]), k + 1, cfg) :
                  i \in picks}

greedyGrowShuffled(modules, current, k, cfg) ==
    IF k >= 3 THEN {current}
    ELSE greedyGrowAmong(modules, current,
                         greatestPicks(modules, current,
                                       greedyScan(modules, current, 1, 0, cfg), cfg),
                         k, cfg)

\* the solutions greedyConstructSolution can return for the candidates array
greedySolutions(modules, shuffled, first, cfg) ==
    IF shuffled
    THEN {evaluate(ms, cfg) : ms \in greedyGrowShuffled(modules, <<modules[first]>>, 0, cfg)}
    ELSE {greedyConstructSolution(modules, first, cfg)}

(***************************************************************************)
(* localSearchImprove(solution, allModules).  Each iteration goes through  *)
(* the positions in order and, at each, through a random sample of         *)
(* min(20, n) modules in random order; the first module of the sample      *)
(* that is not in the solution and raises the score replaces the module    *)
(* at that position, and the iteration ends.  The candidate lists of the   *)
(* model have at most 20 modules, so a sample holds them all: an           *)
(* iteration replaces the first position that has an improving module by   *)
(* any of its improving modules.  An iteration that improves nothing       *)
(* leaves the solution as it is, whether the loop breaks or goes on.       *)
(***************************************************************************)
maxSolutions == 2
localSearchIterations == 2

replaced(modules, i, nm) == [modules EXCEPT ![i] = nm]

improvingAt(best, i, allModules, cfg) ==
    {j \in 1..Len(allModules) :
        /\ ~includes(best, allModules[j])
        /\ ScoreGt(calculatePriorityAwareScore(replaced(best, i, allModules[j]), cfg),
                   calculatePriorityAwareScore(best, cfg))}

\* the first position that has an improving module, 0 when there is none
RECURSIVE firstImprovable(_, _, _, _)
firstImprovable(best, i, allModules, cfg) ==
    IF i > Len(best) THEN 0
    ELSE IF improvingAt(best, i, allModules, cfg) # {} THEN i
    ELSE firstImprovable(best, i + 1, allModules, cfg)

\* the module lists the search can end with
RECURSIVE localSearchFrom(_, _, _, _)
localSearchAt(best, i, improving, allModules, iter, cfg) ==
    UNION {localSearchFrom(replaced(best, i, allModules[j]), allModules, iter + 1, cfg) :
             j \in improving}

localSearchIteration(best, i, allModules, iter, cfg) ==
    IF i = 0 THEN {best}
    ELSE localSearchAt(best, i, improvingAt(best, i, allModules, cfg), allModules, iter, cfg)

localSearchFrom(best, allModules, iter, cfg) ==
    IF iter >= localSearchIterations THEN {best}
    ELSE localSearchIteration(best, firstImprovable(best, 1, allModules, cfg),
                              allModules, iter, cfg)

localSearchImprove(solution, allModules, cfg) ==
    {evaluate(ms, cfg) : ms \in localSearchFrom(solution.modules, allModules, 0, cfg)}

(***************************************************************************)
(* The key of the seen Set: the uuids, which are the decimal strings of    *)
(* the item ids, sorted as strings and joined with '|'.  A string is the   *)
(* sequence of its characters, a digit standing for itself and Bar for     *)
(* the separator.                                                          *)
(***************************************************************************)
Bar == 10

RECURSIVE String(_)
String(n) == IF n < 10 THEN <<n>> ELSE Append(String(n \div 10), n % 10)

\* a < b in the order of Array.prototype.sort() without a comparator
RECURSIVE StringLt(_, _)
StringLt(a, b) ==
    IF b = <<>> THEN FALSE
    ELSE IF a = <<>> THEN TRUE
    ELSE IF Head(a) # Head(b) THEN Head(a) < Head(b)
    ELSE StringLt(Tail(a), Tail(b))

RECURSIVE insertString(_, _)
insertString(sorted, s) ==
    IF sorted = <<>> THEN <<s>>
    ELSE IF StringLt(s, Head(sorted)) THEN <<s>> \o sorted
    ELSE <<Head(sorted)>> \o insertString(Tail(sorted), s)

RECURSIVE sortStrings(_)
sortStrings(list) ==
    IF list = <<>> THEN <<>>
    ELSE insertString(sortStrings(SubSeq(list, 1, Len(list) - 1)), list[Len(list)])

RECURSIVE join(_)
join(strings) ==
    IF strings = <<>> THEN <<>>
    ELSE IF Len(strings) = 1 THEN strings[1]
    ELSE strings[1] \o <<Bar>> \o join(Tail(strings))

idsOf(modules) == join(sortStrings([i \in 1..Len(modules) |-> modules[i].uuid]))

(***************************************************************************)
(* The two comparators of the final sort; Array.prototype.sort is stable.  *)
(***************************************************************************)
comesFirst(a, b, sortMode) ==
    IF sortMode = "ByTotalAttr"
    THEN IF b.priorityLevel # a.priorityLevel THEN a.priorityLevel > b.priorityLevel
         ELSE IF b.totalAttrValue # a.totalAttrValue THEN a.totalAttrValue > b.totalAttrValue
         ELSE a.score > b.score
    ELSE IF b.score # a.score THEN a.score > b.score
         ELSE IF b.priorityLevel # a.priorityLevel THEN a.priorityLevel > b.priorityLevel
         ELSE a.totalAttrValue > b.totalAttrValue

RECURSIVE insertSolution(_, _, _)
insertSolution(sorted, s, sortMode) ==
    IF sorted = <<>> THEN <<s>>
    ELSE IF comesFirst(s, Head(sorted), sortMode) THEN <<s>> \o sorted
    ELSE <<Head(sorted)>> \o insertSolution(Tail(sorted), s, sortMode)

RECURSIVE sortSolutions(_, _)
sortSolutions(solutions, sortMode) ==
    IF solutions = <<>> THEN <<>>
    ELSE insertSolution(sortSolutions(SubSeq(solutions, 1, Len(solutions) - 1), sortMode),
                        solutions[Len(solutions)], sortMode)


(***************************************************************************)
(* optimizeModules(modules, category, topN, sortMode), one step per        *)
(* attempt of the search loop.                                             *)
(***************************************************************************)
filterByCategory(modules, category) ==
    IF category # "ALL"
    THEN SelectSeq(modules, LAMBDA m : getModuleCategory(m) = category)
    ELSE modules

\* the call up to the search loop
optimizeModules(modules, category, topN, sortMode, cfg) ==
    IF Len(filterByCategory(modules, category)) < 4
    THEN [NoOptimization EXCEPT !.pc = "returned", !.modules = modules,
                                !.category = category, !.topN = topN,
                                !.sortMode = sortMode, !.cfg = cfg]
    ELSE [NoOptimization EXCEPT !.pc = "search", !.modules = modules,
                                !.category = category, !.topN = topN,
                                !.sortMode = sortMode, !.cfg = cfg,
                                !.candidates = prefilterModules(filterByCategory(modules, category))]

\* if (!seen.has(ids)) { seen.add(ids); solutions.push(improved); }
pushIfNew(o, improved) ==
    IF idsOf(improved.modules) \in o.seen THEN o
    ELSE [o EXCEPT !.seen = @ \cup {idsOf(improved.modules)},
                   !.solutions = Append(@, improved)]

OptimizeModules(Lists, Categories, TopNs, SortModes, Configs) ==
    \E modules \in Lists, category \in Categories, topN \in TopNs,
       sortMode \in SortModes, cfg \in Configs :
      /\ optimizer.pc = "idle"
      /\ optimizer' = optimizeModules(modules, category, topN, sortMode, cfg)
      /\ UNCHANGED <<internalBuffer, stream, fed, dispatched, zstdAvailable, last, parsing,
                     storeVars>>

\* one pass through the body of the while loop
SearchAttempt ==
    /\ optimizer.pc = "search"
    /\ Len(optimizer.solutions) < maxSolutions
    /\ optimizer.attempts < maxSolutions * 20
    /\ IF Len(optimizer.candidates) < 4
       THEN optimizer' = [optimizer EXCEPT !.attempts = @ + 1]
       ELSE \E first \in 1..Len(optimizer.candidates) :
              \E init \in greedySolutions(optimizer.candidates, optimizer.shuffled, first,
                                          optimizer.cfg) :
              \E improved \in localSearchImprove(init, optimizer.candidates, optimizer.cfg) :
                optimizer' = pushIfNew([optimizer EXCEPT !.attempts = @ + 1,
                                                         !.shuffled = TRUE],
                                       improved)
    /\ UNCHANGED <<internalBuffer, stream, fed, dispatched, zstdAvailable, last, parsing,
                   storeVars>>

\* the loop is left: sort and slice(0, topN)
ReturnSolutions ==
    /\ optimizer.pc = "search"
    /\ ~(Len(optimizer.solutions) < maxSolutions /\ optimizer.attempts < maxSolutions * 20)
    /\ optimizer' = [optimizer EXCEPT
                       !.pc = "returned",
                       !.result = Take(sortSolutions(optimizer.solutions, optimizer.sortMode),
                                       optimizer.topN)]
    /\ UNCHANGED <<internalBuffer, stream, fed, dispatched, zstdAvailable, last, parsing,
                   storeVars>>

\* the modules of the requests: item ids 9 to 100, ATTACK modules (one of
\* them without parts) and one SUPPORT module with the parts of ModuleB
Part(name, value) == [name |-> name, value |-> value]
Module(itemUuid, configId, parts) ==
    [uuid |-> String(itemUuid), configId |-> configId, parts |-> parts]

ModuleA == Module(9, 5500101, <<Part("Strength Boost", 3), Part("Extreme Damage Stack", 1)>>)
ModuleB == Module(10, 5500102, <<Part("Strength Boost", 2)>>)
ModuleC == Module(11, 5500101, <<Part("Agility Boost", 4)>>)
ModuleD == Module(100, 5500103, <<Part("Strength Boost", 1), Part("Agility Boost", 8)>>)
ModuleS == Module(13, 5500201, <<Part("Strength Boost", 2)>>)
ModuleN == Module(14, 5500101, <<>>)

MixedModules == <<ModuleA, ModuleB, ModuleC, ModuleD, ModuleS>>

ModuleLists ==
    { MixedModules,
      <<ModuleA, ModuleB, ModuleC, ModuleS>>,
      <<ModuleA, ModuleB, ModuleC, ModuleN>>,
      <<ModuleA, ModuleB, ModuleC>> }

NoPriorities == [priorityAttrs |-> {}, desiredLevels |-> <<>>]
StrengthFirst ==
    [priorityAttrs |-> {"Strength Boost", "Agility Boost"},
     desiredLevels |-> [n \in {"Strength Boost"} |-> 2]]

NextOptimize ==
    \/ OptimizeModules(ModuleLists, {"ALL", "ATTACK"}, {1}, {"ByTotalAttr"}, {StrengthFirst})
    \/ OptimizeModules({MixedModules}, {"ALL"}, {0, 40}, {"ByScore"}, {NoPriorities})
    \/ SearchAttempt
    \/ ReturnSolutions
SpecOptimize == InitSession /\ [][NextOptimize]_vars


(***************************************************************************)
(* C39: every pass through the search loop of optimizeModules counts one   *)
(* more attempt, and the attempts never exceed maxSolutions * 20, so the   *)
(* loop is left after at most that many passes; the call returns at most   *)
(* topN solutions, each of exactly 4 modules with pairwise different       *)
(* uuids, all of the requested category unless the category is 'ALL'; no   *)
(* two returned solutions have the same set of uuids; and nothing is       *)
(* returned when fewer than 4 modules match the category.                  *)
(***************************************************************************)
C39_UuidsOf(solution) == {solution.modules[i].uuid : i \in 1..Len(solution.modules)}

C39_SolutionOk(solution, category) ==
    /\ Len(solution.modules) = 4
    /\ \A i, j \in 1..Len(solution.modules) :
          solution.modules[i].uuid = solution.modules[j].uuid => i = j
    /\ category # "ALL" =>
          \A i \in 1..Len(solution.modules) : getModuleCategory(solution.modules[i]) = category

C39_Matching(modules, category) ==
    {i \in 1..Len(modules) : category = "ALL" \/ getModuleCategory(modules[i]) = category}

C39_ResultOk(o) ==
    /\ Len(o.result) <= o.topN
    /\ \A i \in 1..Len(o.result) : C39_SolutionOk(o.result[i], o.category)
    /\ \A i, j \in 1..Len(o.result) :
          C39_UuidsOf(o.result[i]) = C39_UuidsOf(o.result[j]) => i = j
    /\ Cardinality(C39_Matching(o.modules, o.category)) < 4 => o.result = <<>>

C39_Step ==
    /\ optimizer'.attempts <= maxSolutions * 20
    /\ (optimizer.pc = "search" /\ optimizer'.pc = "search")
          => optimizer'.attempts = optimizer.attempts + 1
    /\ optimizer'.pc = "returned" => C39_ResultOk(optimizer')

C39_OptimizeReturnsSolutions == [][C39_Step]_vars

\* a request for the ATTACK modules of a list that holds a SUPPORT module
\* has used up its attempts and returned its one solution
C39_Witness ==
    /\ optimizer.pc = "returned"
    /\ optimizer.category = "ATTACK"
    /\ optimizer.attempts = maxSolutions * 20
    /\ Len(optimizer.result) = 1
    /\ \E i \in 1..Len(optimizer.modules) : getModuleCategory(optimizer.modules[i]) = "SUPPORT"

====
